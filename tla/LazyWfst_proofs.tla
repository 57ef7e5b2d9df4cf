-------------------------- MODULE LazyWfst_proofs ---------------------------
(***************************************************************************)
(* Proofs about LazyWfst: its invariants hold for every set of states,     *)
(* sources and policies, as long as a source never reports a snapshot      *)
(* again that it left.                                                     *)
(*                                                                         *)
(* The cache operators are first shown to keep the records of the entries  *)
(* they leave, whatever its links are; each action is then described by    *)
(* what it does to EntryOf, from which the invariants about ownership,     *)
(* freshness and attempts follow.                                          *)
(*                                                                         *)
(* The links are treated last.  A cache is chained if an enumeration of    *)
(* its entries is what its links follow; every operator keeps a chain, and *)
(* a chained cache is coherent.  That a rebuilt list is a chain needs the  *)
(* increasing enumeration of a finite set of numbers, which is shown to    *)
(* exist by a smallest counterexample.                                     *)
(*                                                                         *)
(* With the chain the order of access is known after every operation, and  *)
(* each step is shown to be a step of ExpansionLifecycle or a stutter.     *)
(***************************************************************************)
EXTENDS LazyWfstRefinement, FiniteSetTheorems, SequenceTheorems, WellFoundedInduction, TLAPS

IsEntry(e, R) == e = Entry(e.record, e.previous, e.next) /\ e.record \in R

IsCache(c, R) ==
    /\ c = [entries |-> c.entries, head |-> c.head, tail |-> c.tail]
    /\ c.entries = [s \in Cached(c) |-> c.entries[s]]
    /\ Cached(c) \subseteq States
    /\ \A s \in Cached(c) : IsEntry(c.entries[s], R)

(* The entries of d are entries of c, with their records.                  *)
KeepsRecords(c, d) ==
    /\ Cached(d) \subseteq Cached(c)
    /\ \A s \in Cached(d) : d.entries[s].record = c.entries[s].record

(* Rewriting a link, whether or not the entry exists, keeps every record.  *)
LEMMA SetLinkFacts ==
    ASSUME NEW c, NEW R, NEW s, NEW to, IsCache(c, R)
    PROVE  /\ IsCache(SetPrevious(c, s, to), R) /\ IsCache(SetNext(c, s, to), R)
           /\ Cached(SetPrevious(c, s, to)) = Cached(c)
           /\ Cached(SetNext(c, s, to)) = Cached(c)
           /\ KeepsRecords(c, SetPrevious(c, s, to))
           /\ KeepsRecords(c, SetNext(c, s, to))
<1> DEFINE p == SetPrevious(c, s, to)
           n == SetNext(c, s, to)
<1>1. /\ p = [entries |-> [c.entries EXCEPT ![s] = [@ EXCEPT !.previous = to]],
              head |-> c.head, tail |-> c.tail]
      /\ n = [entries |-> [c.entries EXCEPT ![s] = [@ EXCEPT !.next = to]],
              head |-> c.head, tail |-> c.tail]
  BY DEF SetPrevious, SetNext, IsCache
<1>2. Cached(p) = Cached(c) /\ Cached(n) = Cached(c)
  BY <1>1 DEF Cached
<1>3. \A t \in Cached(c) :
          /\ p.entries[t] = IF t = s THEN [c.entries[t] EXCEPT !.previous = to] ELSE c.entries[t]
          /\ n.entries[t] = IF t = s THEN [c.entries[t] EXCEPT !.next = to] ELSE c.entries[t]
  BY <1>1 DEF Cached
<1>4. \A t \in Cached(c) : /\ IsEntry(p.entries[t], R) /\ p.entries[t].record = c.entries[t].record
                           /\ IsEntry(n.entries[t], R) /\ n.entries[t].record = c.entries[t].record
  <2> TAKE t \in Cached(c)
  <2>1. IsEntry(c.entries[t], R)
    BY DEF IsCache
  <2>2. [c.entries[t] EXCEPT !.previous = to] = Entry(c.entries[t].record, to, c.entries[t].next)
    BY <2>1 DEF IsEntry, Entry
  <2>3. [c.entries[t] EXCEPT !.next = to] = Entry(c.entries[t].record, c.entries[t].previous, to)
    BY <2>1 DEF IsEntry, Entry
  <2> QED
    BY <2>1, <2>2, <2>3, <1>3 DEF IsEntry, Entry
<1>5. p.entries = [t \in Cached(p) |-> p.entries[t]] /\ n.entries = [t \in Cached(n) |-> n.entries[t]]
  BY <1>1 DEF Cached
<1>6. IsCache(p, R) /\ IsCache(n, R)
  BY <1>1, <1>2, <1>4, <1>5 DEF IsCache
<1>7. KeepsRecords(c, p) /\ KeepsRecords(c, n)
  BY <1>2, <1>4 DEF KeepsRecords
<1> QED
  BY <1>2, <1>6, <1>7

LEMMA SetEndFacts ==
    ASSUME NEW c, NEW R, NEW to, IsCache(c, R)
    PROVE  /\ IsCache(SetHead(c, to), R) /\ IsCache(SetTail(c, to), R)
           /\ SetHead(c, to).entries = c.entries /\ SetTail(c, to).entries = c.entries
  BY DEF SetHead, SetTail, IsCache, Cached

LEMMA KeepsRecordsTransitive ==
    ASSUME NEW c, NEW d, NEW e, KeepsRecords(c, d), KeepsRecords(d, e)
    PROVE  KeepsRecords(c, e)
  BY DEF KeepsRecords


(* remove_cached drops one entry and relinks others.                       *)
LEMMA RemoveCachedFacts ==
    ASSUME NEW c, NEW R, NEW s, IsCache(c, R)
    PROVE  /\ IsCache(RemoveCached(c, s), R)
           /\ Cached(RemoveCached(c, s)) = Cached(c) \ {s}
           /\ KeepsRecords(c, RemoveCached(c, s))
<1> DEFINE e == c.entries[s]
           without == [c EXCEPT !.entries = Without(c.entries, s)]
           forward == IF e.previous # NULL THEN SetNext(without, e.previous, e.next)
                      ELSE IF c.head = s THEN SetHead(without, e.next) ELSE without
           result == IF e.next # NULL THEN SetPrevious(forward, e.next, e.previous)
                     ELSE IF c.tail = s THEN SetTail(forward, e.previous) ELSE forward
<1>1. without = [entries |-> Without(c.entries, s), head |-> c.head, tail |-> c.tail]
  BY DEF IsCache
<1>2. IsCache(without, R) /\ Cached(without) = Cached(c) \ {s} /\ KeepsRecords(c, without)
  BY <1>1 DEF IsCache, Cached, Without, KeepsRecords
<1> HIDE DEF without
<1>3. IsCache(forward, R) /\ Cached(forward) = Cached(c) \ {s} /\ KeepsRecords(c, forward)
  <2>1. CASE e.previous # NULL
    BY <1>2, <2>1, SetLinkFacts, KeepsRecordsTransitive
  <2>2. CASE e.previous = NULL
    BY <1>2, <2>2, SetEndFacts DEF Cached, KeepsRecords
  <2> QED
    BY <2>1, <2>2
<1> HIDE DEF forward
<1>4. IsCache(result, R) /\ Cached(result) = Cached(c) \ {s} /\ KeepsRecords(c, result)
  <2>1. CASE e.next # NULL
    BY <1>3, <2>1, SetLinkFacts, KeepsRecordsTransitive
  <2>2. CASE e.next = NULL
    BY <1>3, <2>2, SetEndFacts DEF Cached, KeepsRecords
  <2> QED
    BY <2>1, <2>2
<1>5. RemoveCached(c, s) = IF s \notin Cached(c) THEN c ELSE result
  BY DEF RemoveCached, result, forward, without
<1> HIDE DEF result
<1>6. CASE s \in Cached(c)
  BY <1>4, <1>5, <1>6
<1>7. CASE s \notin Cached(c)
  BY <1>5, <1>7 DEF KeepsRecords
<1> QED
  BY <1>6, <1>7

LEMMA RemovedFromCache ==
    ASSUME NEW c, NEW R, NEW s, IsCache(c, R)
    PROVE  Cached(RemoveCached(c, s)) = Cached(c) \ {s}
  BY ONLY IsCache(c, R), RemoveCachedFacts

LEMMA EvictFacts ==
    ASSUME NEW c, NEW R, IsCache(c, R)
    PROVE  IsCache(EvictLru(c), R) /\ KeepsRecords(c, EvictLru(c))
  BY RemoveCachedFacts DEF EvictLru, KeepsRecords

(* touch_lru moves an entry and keeps all of them.                         *)
LEMMA TouchLruFacts ==
    ASSUME NEW c, NEW R, NEW s, IsCache(c, R)
    PROVE  /\ IsCache(TouchLru(c, s), R)
           /\ Cached(TouchLru(c, s)) = Cached(c)
           /\ KeepsRecords(c, TouchLru(c, s))
<1>1. CASE c.tail = s \/ s \notin Cached(c)
  BY <1>1 DEF TouchLru, KeepsRecords
<1>2. CASE ~(c.tail = s \/ s \notin Cached(c))
  <2> DEFINE e == c.entries[s]
             forward == IF e.previous # NULL THEN SetNext(c, e.previous, e.next)
                                             ELSE SetHead(c, e.next)
             closed  == IF e.next # NULL THEN SetPrevious(forward, e.next, e.previous)
                                         ELSE forward
             own     == [closed EXCEPT !.entries[s] = Entry(e.record, c.tail, NULL)]
             linked  == IF c.tail # NULL THEN SetNext(own, c.tail, s) ELSE SetHead(own, s)
  <2>1. IsCache(forward, R) /\ Cached(forward) = Cached(c) /\ KeepsRecords(c, forward)
    <3>1. CASE e.previous # NULL
      BY <3>1, SetLinkFacts
    <3>2. CASE e.previous = NULL
      BY <3>2, SetEndFacts DEF Cached, KeepsRecords
    <3> QED
      BY <3>1, <3>2
  <2> HIDE DEF forward
  <2>2. IsCache(closed, R) /\ Cached(closed) = Cached(c) /\ KeepsRecords(c, closed)
    BY <2>1, SetLinkFacts, KeepsRecordsTransitive
  <2> HIDE DEF closed
  <2>3. own = [entries |-> [closed.entries EXCEPT ![s] = Entry(e.record, c.tail, NULL)],
               head |-> closed.head, tail |-> closed.tail]
    BY <2>2 DEF IsCache
  <2>4. e.record \in R
    BY <1>2 DEF IsCache, IsEntry
  <2>5. IsEntry(Entry(e.record, c.tail, NULL), R) /\ Entry(e.record, c.tail, NULL).record = e.record
    BY <2>4 DEF IsEntry, Entry
  <2>6. Cached(own) = Cached(c)
    BY <2>2, <2>3 DEF Cached
  <2>7. \A t \in Cached(c) :
            own.entries[t] = IF t = s THEN Entry(e.record, c.tail, NULL) ELSE closed.entries[t]
    BY <2>2, <2>3 DEF Cached
  <2>8. own.entries = [t \in Cached(own) |-> own.entries[t]]
    BY <2>3 DEF Cached
  <2>9. \A t \in Cached(c) : IsEntry(own.entries[t], R)
    BY <2>2, <2>5, <2>7 DEF IsCache
  <2>10. IsCache(own, R)
    BY <2>2, <2>3, <2>6, <2>8, <2>9 DEF IsCache
  <2>11. KeepsRecords(c, own)
    BY <2>2, <2>5, <2>6, <2>7 DEF KeepsRecords
  <2> HIDE DEF own
  <2>12. IsCache(linked, R) /\ Cached(linked) = Cached(c) /\ KeepsRecords(c, linked)
    <3>1. CASE c.tail # NULL
      BY <3>1, <2>6, <2>10, <2>11, SetLinkFacts, KeepsRecordsTransitive
    <3>2. CASE c.tail = NULL
      BY <3>2, <2>6, <2>10, <2>11, SetEndFacts DEF Cached, KeepsRecords
    <3> QED
      BY <3>1, <3>2
  <2>13. TouchLru(c, s) = SetTail(linked, s)
    BY <1>2 DEF TouchLru, linked, own, closed, forward
  <2> HIDE DEF linked
  <2> QED
    BY <2>12, <2>13, SetEndFacts DEF Cached, KeepsRecords
<1> QED
  BY <1>1, <1>2


(* What an insertion leaves: the new record under s, and some of the rest. *)
Inserted(c, d, s, record, R) ==
    /\ IsCache(d, R)
    /\ s \in Cached(d) /\ d.entries[s].record = record
    /\ Cached(d) \subseteq Cached(c) \cup {s}
    /\ \A t \in Cached(d) \ {s} : d.entries[t].record = c.entries[t].record

LEMMA AddEntryFacts ==
    ASSUME NEW c, NEW base, NEW R, NEW s \in States, NEW record \in R, NEW previous,
           IsCache(base, R), KeepsRecords(c, base), s \notin Cached(base)
    PROVE  Inserted(c, [base EXCEPT !.entries = With(base.entries, s, Entry(record, previous, NULL))],
                    s, record, R)
<1> DEFINE new == Entry(record, previous, NULL)
           d == [base EXCEPT !.entries = With(base.entries, s, new)]
<1>1. d = [entries |-> With(base.entries, s, new), head |-> base.head, tail |-> base.tail]
  BY DEF IsCache
<1>2. IsEntry(new, R) /\ new.record = record
  BY DEF IsEntry, Entry
<1> HIDE DEF new
<1>3. Cached(d) = Cached(base) \cup {s}
  BY <1>1 DEF Cached, With
<1>4. \A t \in Cached(d) : d.entries[t] = IF t = s THEN new ELSE base.entries[t]
  BY <1>1 DEF Cached, With
<1>5. d.entries = [t \in Cached(d) |-> d.entries[t]]
  BY <1>1 DEF Cached, With
<1>6. d = [entries |-> d.entries, head |-> d.head, tail |-> d.tail]
  BY <1>1
<1> HIDE DEF d
<1>7. \A t \in Cached(d) : IsEntry(d.entries[t], R)
  BY <1>2, <1>3, <1>4 DEF IsCache
<1>8. IsCache(d, R)
  BY <1>3, <1>5, <1>6, <1>7 DEF IsCache
<1>9. Inserted(c, d, s, record, R)
  BY <1>2, <1>3, <1>4, <1>8 DEF Inserted, KeepsRecords
<1> QED
  BY <1>9 DEF d, new

LEMMA InsertUnlinkedFacts ==
    ASSUME NEW c, NEW R, NEW s \in States, NEW record \in R, IsCache(c, R)
    PROVE  Inserted(c, InsertUnlinked(c, s, record), s, record, R)
<1>1. /\ IsCache(RemoveCached(c, s), R) /\ KeepsRecords(c, RemoveCached(c, s))
      /\ s \notin Cached(RemoveCached(c, s))
  BY RemoveCachedFacts
<1> QED
  BY <1>1, AddEntryFacts DEF InsertUnlinked

LEMMA RelinkedIsInserted ==
    ASSUME NEW c, NEW d, NEW s, NEW record, NEW R, NEW t, NEW to, Inserted(c, d, s, record, R)
    PROVE  /\ Inserted(c, SetNext(d, t, to), s, record, R)
           /\ Inserted(c, SetHead(d, to), s, record, R)
           /\ Inserted(c, SetTail(d, to), s, record, R)
<1>1. IsCache(d, R)
  BY DEF Inserted
<1>2. Inserted(c, SetNext(d, t, to), s, record, R)
  <2> DEFINE n == SetNext(d, t, to)
  <2>1. IsCache(n, R) /\ Cached(n) = Cached(d) /\ KeepsRecords(d, n)
    BY <1>1, SetLinkFacts
  <2> HIDE DEF n
  <2>2. Inserted(c, n, s, record, R)
    BY <2>1 DEF Inserted, KeepsRecords
  <2> QED
    BY <2>2 DEF n
<1>3. Inserted(c, SetHead(d, to), s, record, R) /\ Inserted(c, SetTail(d, to), s, record, R)
  BY <1>1, SetEndFacts DEF Inserted, Cached
<1> QED
  BY <1>2, <1>3

LEMMA InsertRecentFacts ==
    ASSUME NEW c, NEW R, NEW s \in States, NEW record \in R, NEW max, IsCache(c, R)
    PROVE  Inserted(c, InsertRecent(c, s, record, max), s, record, R)
<1> DEFINE absent == RemoveCached(c, s)
           base   == IF Cardinality(Cached(absent)) >= max THEN EvictLru(absent) ELSE absent
           own    == [base EXCEPT !.entries = With(base.entries, s, Entry(record, base.tail, NULL))]
           linked == IF base.tail # NULL THEN SetNext(own, base.tail, s) ELSE SetHead(own, s)
<1>1. IsCache(absent, R) /\ KeepsRecords(c, absent) /\ s \notin Cached(absent)
  BY RemoveCachedFacts
<1> HIDE DEF absent
<1>2. IsCache(EvictLru(absent), R) /\ KeepsRecords(absent, EvictLru(absent))
  BY <1>1, EvictFacts
<1>3. KeepsRecords(c, EvictLru(absent)) /\ s \notin Cached(EvictLru(absent))
  BY <1>1, <1>2, KeepsRecordsTransitive DEF KeepsRecords
<1>4. IsCache(base, R) /\ KeepsRecords(c, base) /\ s \notin Cached(base)
  BY <1>1, <1>2, <1>3
<1> HIDE DEF base
<1>5. Inserted(c, own, s, record, R)
  BY <1>4, AddEntryFacts
<1> HIDE DEF own
<1>6. Inserted(c, linked, s, record, R)
  BY <1>5, RelinkedIsInserted
<1> HIDE DEF linked
<1>7. Inserted(c, SetTail(linked, s), s, record, R)
  BY <1>6, RelinkedIsInserted
<1> QED
  BY <1>7 DEF InsertRecent, linked, own, base, absent

(* Policy changes keep the records of the entries they keep.               *)
LEMMA RebindingFacts ==
    ASSUME NEW c, NEW R, NEW max, IsCache(c, R)
    PROVE  /\ IsCache(Rebound(c, max), R) /\ KeepsRecords(c, Rebound(c, max))
           /\ IsCache(Unlinked(c), R) /\ KeepsRecords(c, Unlinked(c))
<1> DEFINE kept == {s \in Cached(c) : Cardinality(After(Cached(c), s)) < max}
<1>1. kept \subseteq Cached(c)
  OBVIOUS
<1> HIDE DEF kept
<1>2. IsCache(RebuildLru(c, kept), R) /\ KeepsRecords(c, RebuildLru(c, kept))
  BY <1>1 DEF RebuildLru, IsCache, IsEntry, Entry, Cached, KeepsRecords
<1>3. IsCache(Unlinked(c), R) /\ KeepsRecords(c, Unlinked(c))
  BY DEF Unlinked, IsCache, IsEntry, Entry, Cached, KeepsRecords
<1> QED
  BY <1>2, <1>3 DEF Rebound, kept


-----------------------------------------------------------------------------
(* The stores and EntryOf.                                                 *)

CompletedRecords == Records(Completed, Sources)
LifecycleRecords == Records({"expanding"} \cup Failures, Sources \cup {NULL})

StoreInv ==
    /\ IsCache(cache, CompletedRecords)
    /\ DOMAIN transient \subseteq States
    /\ \A s \in DOMAIN transient : transient[s] \in CompletedRecords
    /\ \A s, t \in DOMAIN transient : s = t
    /\ DOMAIN lifecycle \subseteq States
    /\ \A s \in DOMAIN lifecycle : lifecycle[s] \in LifecycleRecords
    /\ Cached(cache) \cap DOMAIN lifecycle = {}
    /\ DOMAIN transient \cap (Cached(cache) \cup DOMAIN lifecycle) = {}
    /\ IF Persistent(policy) THEN DOMAIN transient = {} ELSE Cached(cache) = {}

Same == \A t \in States : EntryOf(t)' = EntryOf(t)
Sets(s, record) == \A t \in States : EntryOf(t)' = IF t = s THEN record ELSE EntryOf(t)
Drops == \A t \in States : EntryOf(t)' = EntryOf(t) \/ EntryOf(t)' = Unexpanded

LEMMA UnchangedStore ==
    ASSUME StoreInv, UNCHANGED <<cache, lifecycle, transient>>, UNCHANGED policy
    PROVE  StoreInv' /\ Same
  BY DEF StoreInv, Same, EntryOf

(* A completed entry is cached or transient, any other is not.             *)
LEMMA CompletedEntries ==
    ASSUME StoreInv, NEW s \in States
    PROVE  /\ EntryOf(s).phase \in Completed <=> s \in Cached(cache) \cup DOMAIN transient
           /\ EntryOf(s) \in CompletedRecords \cup LifecycleRecords \cup {Unexpanded}
           /\ EntryOf(s).phase = "unexpanded" <=> EntryOf(s) = Unexpanded
<1>1. \A r \in CompletedRecords : r.phase \in Completed
  BY DEF CompletedRecords, Records
<1>2. \A r \in LifecycleRecords : r.phase \in {"expanding"} \cup Failures
  BY DEF LifecycleRecords, Records
<1>3. Unexpanded.phase = "unexpanded"
  BY DEF Unexpanded, Record
<1>4. /\ "unexpanded" \notin Completed /\ "unexpanded" \notin {"expanding"} \cup Failures
      /\ Completed \cap ({"expanding"} \cup Failures) = {}
  BY DEF Completed, Failures
<1>5. CASE s \in Cached(cache)
  <2>1. EntryOf(s) = cache.entries[s].record /\ EntryOf(s) \in CompletedRecords
    BY <1>5 DEF EntryOf, StoreInv, IsCache, IsEntry
  <2> QED
    BY <1>1, <1>3, <1>4, <1>5, <2>1
<1>6. CASE s \notin Cached(cache) /\ s \in DOMAIN transient
  <2>1. EntryOf(s) = transient[s] /\ EntryOf(s) \in CompletedRecords
    BY <1>6 DEF EntryOf, StoreInv
  <2> QED
    BY <1>1, <1>3, <1>4, <1>6, <2>1
<1>7. CASE s \notin Cached(cache) \cup DOMAIN transient /\ s \in DOMAIN lifecycle
  <2>1. EntryOf(s) = lifecycle[s] /\ EntryOf(s) \in LifecycleRecords
    BY <1>7 DEF EntryOf, StoreInv
  <2> QED
    BY <1>2, <1>3, <1>4, <1>7, <2>1
<1>8. CASE s \notin Cached(cache) \cup DOMAIN transient \cup DOMAIN lifecycle
  <2>1. EntryOf(s) = Unexpanded
    BY <1>8 DEF EntryOf
  <2> QED
    BY <1>3, <1>4, <1>8, <2>1
<1> QED
  BY <1>5, <1>6, <1>7, <1>8

LEMMA StoreLifecycleFacts ==
    ASSUME StoreInv, NEW s \in States, NEW record \in LifecycleRecords,
           s \notin Cached(cache) \cup DOMAIN transient,
           StoreLifecycle(s, record), UNCHANGED policy
    PROVE  StoreInv' /\ Sets(s, record)
<1>1. /\ DOMAIN lifecycle' = DOMAIN lifecycle \cup {s}
      /\ lifecycle'[s] = record
      /\ \A t \in DOMAIN lifecycle \ {s} : lifecycle'[t] = lifecycle[t]
      /\ cache' = cache /\ transient' = transient
  BY DEF StoreLifecycle, With
<1>2. Sets(s, record)
  BY <1>1 DEF Sets, EntryOf
<1>3. StoreInv'
  BY <1>1 DEF StoreInv
<1> QED
  BY <1>2, <1>3

LEMMA ClearStateFacts ==
    ASSUME StoreInv, NEW s \in States, ClearState(s), UNCHANGED policy
    PROVE  StoreInv' /\ Sets(s, Unexpanded)
<1>1. /\ IsCache(cache', CompletedRecords)
      /\ Cached(cache') = Cached(cache) \ {s}
      /\ KeepsRecords(cache, cache')
  BY RemoveCachedFacts DEF StoreInv, ClearState
<1>2. /\ DOMAIN lifecycle' = DOMAIN lifecycle \ {s}
      /\ DOMAIN transient' = DOMAIN transient \ {s}
      /\ \A t \in DOMAIN lifecycle' : lifecycle'[t] = lifecycle[t]
      /\ \A t \in DOMAIN transient' : transient'[t] = transient[t]
  BY DEF ClearState, Without
<1>3. Sets(s, Unexpanded)
  BY <1>1, <1>2 DEF Sets, EntryOf, KeepsRecords
<1>4. StoreInv'
  BY <1>1, <1>2 DEF StoreInv
<1> QED
  BY <1>3, <1>4

LEMMA EmptyCacheFacts ==
    ASSUME NEW R
    PROVE  IsCache(EmptyCache, R) /\ Cached(EmptyCache) = {} /\ DOMAIN << >> = {}
  BY DEF IsCache, EmptyCache, Cached

LEMMA ClearAllFacts ==
    ASSUME ClearAllStates
    PROVE  StoreInv' /\ \A t \in States : EntryOf(t)' = Unexpanded
<1>1. /\ IsCache(cache', CompletedRecords) /\ Cached(cache') = {}
      /\ DOMAIN lifecycle' = {} /\ DOMAIN transient' = {}
  BY EmptyCacheFacts DEF ClearAllStates
<1>2. StoreInv'
  BY <1>1 DEF StoreInv
<1>3. \A t \in States : EntryOf(t)' = Unexpanded
  BY <1>1 DEF EntryOf
<1> QED
  BY <1>2, <1>3

(* insert_completed of a state with no completed entry.                    *)
LEMMA InsertCompletedFacts ==
    ASSUME StoreInv, NEW s \in States, NEW record \in CompletedRecords,
           s \notin Cached(cache) \cup DOMAIN transient,
           InsertCompleted(s, record), UNCHANGED policy
    PROVE  /\ StoreInv'
           /\ EntryOf(s)' = record
           /\ \A t \in States \ {s} : EntryOf(t)' = EntryOf(t) \/ EntryOf(t)' = Unexpanded
<1>1. /\ DOMAIN lifecycle' = DOMAIN lifecycle \ {s}
      /\ \A t \in DOMAIN lifecycle' : lifecycle'[t] = lifecycle[t]
  BY DEF InsertCompleted, Without
<1>2. CASE Persistent(policy)
  <2>1. Inserted(cache, cache', s, record, CompletedRecords)
    BY <1>2, InsertRecentFacts, InsertUnlinkedFacts DEF InsertCompleted, StoreInv
  <2>2. DOMAIN transient = {} /\ DOMAIN transient' = {}
    BY <1>2 DEF InsertCompleted, StoreInv
  <2>3. StoreInv'
    BY <1>1, <1>2, <2>1, <2>2 DEF StoreInv, Inserted
  <2>4. EntryOf(s)' = record
    BY <2>1 DEF EntryOf, Inserted
  <2>5. \A t \in States \ {s} : EntryOf(t)' = EntryOf(t) \/ EntryOf(t)' = Unexpanded
    BY <1>1, <2>1, <2>2 DEF EntryOf, Inserted, StoreInv
  <2> QED
    BY <2>3, <2>4, <2>5
<1>3. CASE ~Persistent(policy)
  <2>1. cache' = cache /\ Cached(cache) = {}
    BY <1>3 DEF InsertCompleted, StoreInv
  <2>2. transient' = With(<< >>, s, record)
    BY <1>3 DEF InsertCompleted
  <2>3. DOMAIN transient' = {s} /\ transient'[s] = record
    BY <2>2, EmptyCacheFacts DEF With
  <2>4. StoreInv'
    BY <1>1, <1>3, <2>1, <2>3 DEF StoreInv
  <2>5. EntryOf(s)' = record
    BY <2>1, <2>3 DEF EntryOf
  <2>6. \A t \in States \ {s} : EntryOf(t)' = EntryOf(t) \/ EntryOf(t)' = Unexpanded
    BY <1>1, <2>1, <2>3 DEF EntryOf, StoreInv
  <2> QED
    BY <2>4, <2>5, <2>6
<1> QED
  BY <1>2, <1>3

LEMMA TouchFacts ==
    ASSUME StoreInv, NEW s,
           cache' = IF policy.kind = "Lru" THEN TouchLru(cache, s) ELSE cache,
           UNCHANGED <<lifecycle, transient, policy>>
    PROVE  StoreInv' /\ Same
<1>1. /\ IsCache(cache', CompletedRecords) /\ Cached(cache') = Cached(cache)
      /\ KeepsRecords(cache, cache')
  BY TouchLruFacts DEF StoreInv, KeepsRecords
<1> QED
  BY <1>1 DEF StoreInv, Same, EntryOf, KeepsRecords

LEMMA SetCachePolicyFacts ==
    ASSUME StoreInv, NEW p, SetCachePolicy(p)
    PROVE  StoreInv' /\ Drops
<1>1. IsCache(cache', CompletedRecords) /\ KeepsRecords(cache, cache')
  <2>1. IsCache(cache, CompletedRecords)
    BY DEF StoreInv
  <2>2. CASE ~Persistent(p)
    BY <2>2, EmptyCacheFacts DEF SetCachePolicy, KeepsRecords
  <2>3. CASE Persistent(p) /\ p.kind = "Lru"
    <3>1. cache' = Rebound(cache, p.max)
      BY <2>3 DEF SetCachePolicy
    <3> QED
      BY <2>1, <3>1, RebindingFacts
  <2>4. CASE Persistent(p) /\ p.kind # "Lru"
    <3>1. cache' = Unlinked(cache)
      BY <2>4 DEF SetCachePolicy
    <3>2. /\ IsCache(Unlinked(cache), CompletedRecords)
          /\ KeepsRecords(cache, Unlinked(cache))
      BY <2>1, RebindingFacts
    <3> QED
      BY <3>1, <3>2
  <2> QED
    BY <2>2, <2>3, <2>4
<1>2. ~Persistent(p) => Cached(cache') = {}
  BY EmptyCacheFacts DEF SetCachePolicy
<1>3. DOMAIN transient' = {} /\ lifecycle' = lifecycle /\ policy' = p
  BY EmptyCacheFacts DEF SetCachePolicy
<1>4. StoreInv'
  BY <1>1, <1>2, <1>3 DEF StoreInv, KeepsRecords
<1>5. Drops
  BY <1>1, <1>3 DEF Drops, EntryOf, KeepsRecords, StoreInv
<1> QED
  BY <1>4, <1>5

-----------------------------------------------------------------------------
(* The invariant of the call under way, and what each step does to it.     *)

CallTypes ==
    /\ source \in Sources /\ snapshot \in Nat /\ policy \in Policies
    /\ attempts \in 0..MaxAttempts
    /\ pc \in Labels /\ token \in BOOLEAN
    /\ IF At("idle") THEN state = NULL /\ mode = NULL
                     ELSE state \in States /\ mode \in {"Normal", "ExplicitRetry"}
    /\ IF pc \in {"returned", "accepted"} THEN outcome \in Results ELSE outcome = NULL

(* Nothing completes the state of a call behind its back.                  *)
ActiveInv == \A s \in States : s = state => EntryOf(s).phase \notin Completed

OwnerInv ==
    \A s \in States : EntryOf(s).phase = "expanding" <=> (pc \in Invoking /\ s = state)

IInv == StoreInv /\ CallTypes /\ ActiveInv /\ OwnerInv

(* The four effects a step can have on the entries.                        *)
Quiet == Same /\ UNCHANGED <<snapshot, attempts, policy>>

Forgetting ==
    /\ Drops
    /\ ~At("idle") => \A t \in States : t = state => EntryOf(t)' = Unexpanded
    /\ Return \/ (At("idle") /\ UNCHANGED call)
    /\ UNCHANGED <<source, snapshot, attempts>> /\ policy' \in Policies

Restarting ==
    /\ \A t \in States : EntryOf(t)' = Unexpanded
    /\ Return \/ (At("idle") /\ UNCHANGED call)
    /\ snapshot' = Digest[source'] /\ attempts' = 0
    /\ source' \in Sources /\ policy' = policy

Writing(record) ==
    /\ \A t \in States : t = state => EntryOf(t)' = record
    /\ \A t \in States \ {state} : EntryOf(t)' = EntryOf(t) \/ EntryOf(t)' = Unexpanded
    /\ UNCHANGED <<source, snapshot, policy>>

QuietStep ==
    \/ \E s \in States :
          Hit(s) \/ \E m \in {"Normal", "ExplicitRetry"}, c \in BOOLEAN : Check(s, m, c)
    \/ Refuse
    \/ \E phase \in Completed \cup {"cancelled"} : Compute(phase, FALSE)
    \/ \E retry \in BOOLEAN : Compute("failed", retry)
    \/ Panic \/ Accept \/ Cancel
    \/ \E new \in Sources : SourceChanges(new)
    \/ UNCHANGED vars

ForgettingStep ==
    \/ Unwind /\ Fresh
    \/ \E s \in States : Reset(s) \/ Forget(s)
    \/ ClearCache
    \/ \E p \in Policies : SetCachePolicy(p)

RestartingStep ==
    \/ Unwind /\ ~Fresh
    \/ Reject \/ RefreshSnapshot
    \/ \E new \in Sources : ReplaceSource(new)

WritingStep == Precancel \/ Begin \/ CancelWins \/ Fail \/ Complete

LEMMA StepCases ==
    ASSUME [Next]_vars
    PROVE  QuietStep \/ ForgettingStep \/ RestartingStep \/ WritingStep
  BY DEF Next, Expansion, Maintenance, QuietStep, ForgettingStep, RestartingStep, WritingStep

LEMMA QuietSteps ==
    ASSUME IInv, QuietStep
    PROVE  StoreInv' /\ Quiet
<1>1. CASE \E s \in States : Hit(s)
  <2>1. PICK s \in States : Hit(s)
    BY <1>1
  <2> QED
    BY <2>1, TouchFacts DEF Hit, IInv, Quiet
<1>2. CASE ~ \E s \in States : Hit(s)
  <2>1. UNCHANGED <<cache, lifecycle, transient>> /\ UNCHANGED <<snapshot, attempts, policy>>
    BY <1>2 DEF QuietStep, Check, Refuse, Compute, Panic, Accept, Cancel, SourceChanges,
                vars, store
  <2> QED
    BY <2>1, UnchangedStore DEF IInv, Quiet
<1> QED
  BY <1>1, <1>2

LEMMA ForgettingSteps ==
    ASSUME IInv, ForgettingStep
    PROVE  StoreInv' /\ Forgetting
<1>1. policy \in Policies
  BY DEF IInv, CallTypes
<1>2. \A s \in States : Sets(s, Unexpanded) => Drops /\ EntryOf(s)' = Unexpanded
  BY DEF Sets, Drops
<1>3. CASE Unwind /\ Fresh
  <2>1. ClearState(state) /\ state \in States /\ policy' = policy
    BY <1>3 DEF Unwind, IInv, CallTypes, At
  <2>2. StoreInv' /\ Sets(state, Unexpanded)
    BY <2>1, ClearStateFacts DEF IInv
  <2> QED
    BY <1>1, <1>2, <1>3, <2>1, <2>2 DEF Forgetting, Unwind
<1>4. CASE \E s \in States : Reset(s) \/ Forget(s)
  <2>1. PICK s \in States : Reset(s) \/ Forget(s)
    BY <1>4
  <2>2. ClearState(s) /\ policy' = policy
    BY <2>1 DEF Reset, Forget
  <2>3. StoreInv' /\ Sets(s, Unexpanded)
    BY <2>2, ClearStateFacts DEF IInv
  <2> QED
    BY <1>1, <1>2, <2>1, <2>3 DEF Forgetting, Reset, Forget
<1>5. CASE ClearCache
  <2>1. StoreInv' /\ Drops
    BY <1>5, ClearAllFacts DEF ClearCache, Drops
  <2> QED
    BY <1>1, <1>5, <2>1 DEF Forgetting, ClearCache
<1>6. CASE \E p \in Policies : SetCachePolicy(p)
  <2>1. PICK p \in Policies : SetCachePolicy(p)
    BY <1>6
  <2>2. StoreInv' /\ Drops
    BY <2>1, SetCachePolicyFacts DEF IInv
  <2> QED
    BY <2>1, <2>2 DEF Forgetting, SetCachePolicy
<1> QED
  BY <1>3, <1>4, <1>5, <1>6 DEF ForgettingStep

LEMMA RestartingSteps ==
    ASSUME IInv, RestartingStep
    PROVE  StoreInv' /\ Restarting
<1>1. source \in Sources
  BY DEF IInv, CallTypes
<1>2. ClearAllStates
  BY DEF RestartingStep, Unwind, Reject, RefreshSnapshot, ReplaceSource, Rebind
<1>3. StoreInv' /\ \A t \in States : EntryOf(t)' = Unexpanded
  BY <1>2, ClearAllFacts
<1>4. /\ Return \/ (At("idle") /\ UNCHANGED call)
      /\ snapshot' = Digest[source'] /\ attempts' = 0
      /\ source' \in Sources /\ policy' = policy
  BY <1>1 DEF RestartingStep, Unwind, Reject, RefreshSnapshot, ReplaceSource, Rebind
<1> QED
  BY <1>3, <1>4 DEF Restarting

(* What each writing step stores for the state of the call.                *)
LEMMA WritingSteps ==
    ASSUME IInv
    PROVE  /\ Precancel \/ CancelWins => StoreInv' /\ Writing(Cancelled(attempts))
           /\ Begin => StoreInv' /\ Writing(Record("expanding", FALSE, attempts', NULL))
           /\ Fail \/ Complete => StoreInv' /\ Writing(outcome)
<1> USE DEF At
<1>1. ASSUME ~At("idle")
      PROVE  state \in States /\ state \notin Cached(cache) \cup DOMAIN transient
  BY <1>1, CompletedEntries DEF IInv, CallTypes, ActiveInv
<1>2. attempts \in 0..MaxAttempts
  BY DEF IInv, CallTypes
<1>3. ASSUME NEW record \in LifecycleRecords, StoreLifecycle(state, record), ~At("idle"),
             UNCHANGED <<source, snapshot, policy>>
      PROVE  StoreInv' /\ Writing(record)
  BY <1>1, <1>3, StoreLifecycleFacts DEF IInv, Writing, Sets
<1>4. Precancel \/ CancelWins => StoreInv' /\ Writing(Cancelled(attempts))
  <2>1. Cancelled(attempts) \in LifecycleRecords
    BY <1>2 DEF Cancelled, Record, LifecycleRecords, Records, Failures
  <2> QED
    BY <1>3, <2>1 DEF Precancel, CancelWins
<1>5. Begin => StoreInv' /\ Writing(Record("expanding", FALSE, attempts', NULL))
  <2> SUFFICES ASSUME Begin
               PROVE  StoreInv' /\ Writing(Record("expanding", FALSE, attempts', NULL))
    OBVIOUS
  <2>1. attempts' \in 0..MaxAttempts
    BY <1>2, AttemptsAssumption DEF Begin
  <2>2. Record("expanding", FALSE, attempts', NULL) \in LifecycleRecords
    BY <2>1 DEF Record, LifecycleRecords, Records
  <2> QED
    BY <1>3, <2>2 DEF Begin
<1>6. Fail => StoreInv' /\ Writing(outcome)
  <2>1. Fail => outcome \in LifecycleRecords
    BY DEF Fail, IInv, CallTypes, Results, LifecycleRecords, Records
  <2> QED
    BY <1>3, <2>1 DEF Fail
<1>7. Complete => StoreInv' /\ Writing(outcome)
  <2> SUFFICES ASSUME Complete
               PROVE  StoreInv' /\ Writing(outcome)
    OBVIOUS
  <2>1. outcome \in CompletedRecords
    BY DEF Complete, IInv, CallTypes, Results, CompletedRecords, Records
  <2>2. /\ state \in States /\ state \notin Cached(cache) \cup DOMAIN transient
        /\ InsertCompleted(state, outcome) /\ UNCHANGED <<source, snapshot, policy>>
    BY <1>1 DEF Complete
  <2>3. /\ StoreInv'
        /\ \A t \in States : t = state => EntryOf(t)' = outcome
        /\ \A t \in States \ {state} : EntryOf(t)' = EntryOf(t) \/ EntryOf(t)' = Unexpanded
    <3>1. PICK u \in States : u = state
      BY <2>2
    <3>2. PICK o \in CompletedRecords : o = outcome
      BY <2>1
    <3>3. u \notin Cached(cache) \cup DOMAIN transient /\ InsertCompleted(u, o) /\ UNCHANGED policy
      BY <2>2, <3>1, <3>2
    <3>4. /\ StoreInv'
          /\ EntryOf(u)' = o
          /\ \A t \in States \ {u} : EntryOf(t)' = EntryOf(t) \/ EntryOf(t)' = Unexpanded
      BY <3>3, InsertCompletedFacts DEF IInv
    <3> QED
      BY <3>1, <3>2, <3>4
  <2> QED
    BY <2>2, <2>3 DEF Writing
<1> QED
  BY <1>4, <1>5, <1>6, <1>7

-----------------------------------------------------------------------------
LEMMA InitInv == Init => IInv
<1> SUFFICES ASSUME Init PROVE IInv
  OBVIOUS
<1>1. /\ IsCache(cache, CompletedRecords) /\ Cached(cache) = {}
      /\ DOMAIN transient = {} /\ DOMAIN lifecycle = {}
  BY EmptyCacheFacts DEF Init
<1>2. StoreInv
  BY <1>1 DEF StoreInv
<1>3. CallTypes
  <2>1. snapshot \in Nat /\ attempts \in 0..MaxAttempts
    BY DigestAssumption, AttemptsAssumption DEF Init
  <2>2. pc = "idle" /\ state = NULL /\ mode = NULL /\ token = FALSE /\ outcome = NULL
    BY DEF Init
  <2> QED
    BY <2>1, <2>2 DEF Init, CallTypes, At, Labels
<1>4. ActiveInv /\ OwnerInv
  BY <1>1, StatesAssumption
  DEF Init, ActiveInv, OwnerInv, EntryOf, Unexpanded, Record, Invoking, Completed
<1> QED
  BY <1>2, <1>3, <1>4 DEF IInv

(* The call's own variables keep their types.                              *)
LEMMA CallTypesStep ==
    ASSUME IInv, [Next]_vars, policy' \in Policies
    PROVE  CallTypes'
<1> USE DEF At
<1>1. CallTypes /\ Digest \in [Sources -> Nat] /\ MaxAttempts \in Nat
  BY DigestAssumption, AttemptsAssumption DEF IInv
<1>2. CASE QuietStep
  <2>1. CASE \E s \in States :
                Hit(s) \/ \E m \in {"Normal", "ExplicitRetry"}, c \in BOOLEAN : Check(s, m, c)
    BY <1>1, <2>1 DEF CallTypes, Hit, Check, call, Labels
  <2>2. CASE Refuse
    BY <1>1, <2>2 DEF CallTypes, Refuse, Return, Labels
  <2>3. CASE \/ \E phase \in Completed \cup {"cancelled"} : Compute(phase, FALSE)
             \/ \E retry \in BOOLEAN : Compute("failed", retry)
    <3>1. outcome' \in Results
      <4>1. PICK phase \in Completed \cup Failures, retry \in BOOLEAN : Compute(phase, retry)
        BY <2>3 DEF Failures
      <4>2. outcome' = Record(phase, retry, attempts, source)
        BY <4>1 DEF Compute
      <4> QED
        BY <1>1, <4>2 DEF CallTypes, Results, Records, Record
    <3>2. pc' = "returned" /\ UNCHANGED <<source, snapshot, policy, attempts, state, mode, token>>
          /\ pc = "invoking"
      BY <2>3 DEF Compute
    <3> QED
      BY <1>1, <3>1, <3>2 DEF CallTypes, Labels
  <2>4. CASE Panic \/ Accept
    BY <1>1, <2>4 DEF CallTypes, Panic, Accept, Labels
  <2>5. CASE Cancel
    BY <1>1, <2>5 DEF CallTypes, Cancel
  <2>6. CASE \E new \in Sources : SourceChanges(new)
    BY <1>1, <2>6 DEF CallTypes, SourceChanges, call
  <2>7. CASE UNCHANGED vars
    BY <1>1, <2>7 DEF CallTypes, vars, call
  <2> QED
    BY <1>2, <2>1, <2>2, <2>3, <2>4, <2>5, <2>6, <2>7 DEF QuietStep
<1>3. CASE ForgettingStep
  <2>1. Forgetting
    BY <1>3, ForgettingSteps
  <2> QED
    BY <1>1, <2>1 DEF CallTypes, Forgetting, Return, call, Labels
<1>4. CASE RestartingStep
  <2>1. Restarting
    BY <1>4, RestartingSteps
  <2>2. snapshot' \in Nat /\ attempts' \in 0..MaxAttempts
    BY <1>1, <2>1 DEF Restarting
  <2>3. CASE Return
    BY <1>1, <2>1, <2>2, <2>3 DEF CallTypes, Restarting, Return, Labels
  <2>4. CASE pc = "idle" /\ UNCHANGED call
    BY <1>1, <2>1, <2>2, <2>4 DEF CallTypes, Restarting, call
  <2> QED
    BY <2>1, <2>3, <2>4 DEF Restarting
<1>5. CASE WritingStep
  <2>1. CASE Begin
    BY <1>1, <2>1 DEF CallTypes, Begin, Labels
  <2>2. CASE Precancel \/ CancelWins \/ Fail \/ Complete
    BY <1>1, <2>2 DEF CallTypes, Precancel, CancelWins, Fail, Complete, Return, Labels
  <2> QED
    BY <1>5, <2>1, <2>2 DEF WritingStep
<1> QED
  BY <1>2, <1>3, <1>4, <1>5, StepCases

(* The ownership of states, by the kind of step.                           *)
Owning == ActiveInv /\ OwnerInv

LEMMA QuietOwning ==
    ASSUME IInv, QuietStep, Same
    PROVE  Owning'
<1> USE DEF At
<1>1. /\ \A s \in States : EntryOf(s)' = EntryOf(s)
      /\ CallTypes /\ ActiveInv /\ OwnerInv
  BY DEF IInv, Same
<1>2. CASE \E s \in States, m \in {"Normal", "ExplicitRetry"}, c \in BOOLEAN : Check(s, m, c)
  <2>1. PICK s \in States : EntryOf(s).phase \notin Completed /\ state' = s
                            /\ pc' = "checked" /\ pc = "idle"
    BY <1>2 DEF Check
  <2> QED
    BY <1>1, <2>1 DEF Owning, ActiveInv, OwnerInv, Invoking
<1>3. CASE Refuse
  BY <1>1, <1>3, StatesAssumption DEF Refuse, Return, Owning, ActiveInv, OwnerInv, Invoking
<1>4. CASE \/ \E phase \in Completed \cup {"cancelled"} : Compute(phase, FALSE)
           \/ \E retry \in BOOLEAN : Compute("failed", retry)
           \/ Panic \/ Accept
  <2>1. pc \in Invoking /\ pc' \in Invoking /\ state' = state
    BY <1>4 DEF Compute, Panic, Accept, Invoking
  <2> QED
    BY <1>1, <2>1 DEF Owning, ActiveInv, OwnerInv
<1>5. CASE \/ \E s \in States : Hit(s)
           \/ \E new \in Sources : SourceChanges(new)
           \/ Cancel \/ UNCHANGED vars
  <2>1. pc' = pc /\ state' = state
    BY <1>5 DEF Hit, SourceChanges, Cancel, vars, call
  <2> QED
    BY <1>1, <2>1 DEF Owning, ActiveInv, OwnerInv
<1> QED
  BY <1>2, <1>3, <1>4, <1>5 DEF QuietStep

LEMMA StepInv == IInv /\ [Next]_vars => IInv'
<1> SUFFICES ASSUME IInv, [Next]_vars
             PROVE  IInv'
  OBVIOUS
<1>0. CallTypes /\ ActiveInv /\ OwnerInv
  BY DEF IInv
<1>1. CASE QuietStep
  <2>1. StoreInv' /\ Quiet
    BY <1>1, QuietSteps
  <2>2. CallTypes'
    BY <1>0, <2>1, CallTypesStep DEF Quiet, CallTypes
  <2>3. Owning'
    BY <1>1, <2>1, QuietOwning DEF Quiet
  <2> QED
    BY <2>1, <2>2, <2>3 DEF IInv, Owning
<1>2. CASE ForgettingStep \/ RestartingStep
  <2>1. StoreInv' /\ (Forgetting \/ Restarting)
    BY <1>2, ForgettingSteps, RestartingSteps
  <2>2. CallTypes'
    BY <1>0, <2>1, CallTypesStep DEF Forgetting, Restarting, CallTypes
  <2>3. pc' = "idle" /\ state' = NULL
    BY <1>0, <2>1 DEF Forgetting, Restarting, Return, call, CallTypes, At
  <2>4. \A s \in States : EntryOf(s)' = Unexpanded \/ (EntryOf(s)' = EntryOf(s) /\ s # state)
    <3>1. pc = "idle" => state \notin States
      BY <1>0, StatesAssumption DEF CallTypes, At
    <3> QED
      BY <2>1, <3>1 DEF Forgetting, Restarting, Drops, At
  <2>5. Unexpanded.phase # "expanding"
    BY DEF Unexpanded, Record
  <2>6. Owning'
    BY <1>0, <2>3, <2>4, <2>5, StatesAssumption DEF Owning, ActiveInv, OwnerInv, Invoking
  <2> QED
    BY <2>1, <2>2, <2>6 DEF IInv, Owning
<1>3. CASE WritingStep
  <2>1. Unexpanded.phase \notin Completed \cup {"expanding"}
    BY DEF Unexpanded, Record, Completed
  <2>2. CASE Begin
    <3>1. StoreInv' /\ Writing(Record("expanding", FALSE, attempts', NULL))
      BY <2>2, WritingSteps
    <3>2. CallTypes'
      BY <1>0, <3>1, CallTypesStep DEF Writing, CallTypes
    <3>3. Record("expanding", FALSE, attempts', NULL).phase = "expanding"
      BY DEF Record
    <3>4. pc = "checked" /\ pc' = "invoking" /\ state' = state
      BY <2>2 DEF Begin, At
    <3>5. Owning'
      BY <1>0, <2>1, <3>1, <3>3, <3>4 DEF Writing, Owning, ActiveInv, OwnerInv, Invoking, Completed
    <3> QED
      BY <3>1, <3>2, <3>5 DEF IInv, Owning
  <2>3. CASE Precancel \/ CancelWins \/ Fail \/ Complete
    <3>1. (Fail \/ Complete) => outcome.phase # "expanding"
      BY DEF Fail, Complete, Completed, Failures
    <3>2. Cancelled(attempts).phase # "expanding"
      BY DEF Cancelled, Record
    <3>3. PICK r : StoreInv' /\ Writing(r) /\ r.phase # "expanding"
      BY <2>3, <3>1, <3>2, WritingSteps
    <3>4. CallTypes'
      BY <1>0, <3>3, CallTypesStep DEF Writing, CallTypes
    <3>5. pc' = "idle" /\ state' = NULL
      BY <2>3 DEF Precancel, CancelWins, Fail, Complete, Return
    <3>6. Owning'
      BY <1>0, <2>1, <3>3, <3>5, StatesAssumption
      DEF Writing, Owning, ActiveInv, OwnerInv, Invoking
    <3> QED
      BY <3>3, <3>4, <3>6 DEF IInv, Owning
  <2> QED
    BY <1>3, <2>2, <2>3 DEF WritingStep
<1> QED
  BY <1>1, <1>2, <1>3, StepCases

THEOREM InvHolds == Spec => []IInv
  BY InitInv, StepInv, PTL DEF Spec

(* Every variable keeps its type, and only completed results reach the     *)
(* cache or the transient state.                                           *)
THEOREM TypeInvariant == Spec => []TypeOK
<1>1. IInv => TypeOK
  <2> SUFFICES ASSUME IInv PROVE TypeOK
    OBVIOUS
  <2>1. \A s \in Cached(cache) : cache.entries[s].record \in Records(Completed, Sources)
    BY DEF IInv, StoreInv, IsCache, IsEntry, CompletedRecords
  <2>2. Cached(cache) \subseteq States
    BY DEF IInv, StoreInv, IsCache
  <2>3. /\ DOMAIN transient \subseteq States
        /\ \A s \in DOMAIN transient : transient[s] \in Records(Completed, Sources)
        /\ DOMAIN lifecycle \subseteq States
        /\ \A s \in DOMAIN lifecycle :
              lifecycle[s] \in Records({"expanding"} \cup Failures, Sources \cup {NULL})
    BY DEF IInv, StoreInv, CompletedRecords, LifecycleRecords
  <2> QED
    BY <2>1, <2>2, <2>3 DEF IInv, CallTypes, TypeOK
<1> QED
  BY InvHolds, <1>1, PTL

(* Exactly the state of the call that is at the source is expanding, after *)
(* every panic, stale result, cancellation and policy change.              *)
THEOREM Ownership == Spec => []SoleOwner
<1>1. IInv => SoleOwner
  <2> SUFFICES ASSUME IInv PROVE SoleOwner
    OBVIOUS
  <2>1. \A s \in States : EntryOf(s).phase = "expanding" <=> (pc \in Invoking /\ s = state)
    BY DEF IInv, OwnerInv
  <2>2. pc \in Invoking => state \in States
    BY DEF IInv, CallTypes, Invoking, At
  <2> QED
    BY <2>1, <2>2 DEF SoleOwner
<1> QED
  BY InvHolds, <1>1, PTL

(* A state has at most one record among the three stores, and at most one  *)
(* completed record is transient.                                          *)
THEOREM OneRecord == Spec => []OneRecordEach
<1>1. IInv => OneRecordEach
  <2> SUFFICES ASSUME IInv PROVE OneRecordEach
    OBVIOUS
  <2>1. Cardinality(DOMAIN transient) <= 1
    <3>1. CASE DOMAIN transient = {}
      BY <3>1, FS_EmptySet
    <3>2. CASE DOMAIN transient # {}
      <4>1. PICK s \in DOMAIN transient : TRUE
        BY <3>2
      <4>2. DOMAIN transient = {s}
        BY <4>1 DEF IInv, StoreInv
      <4> QED
        BY <4>2, FS_Singleton
    <3> QED
      BY <3>1, <3>2
  <2> QED
    BY <2>1 DEF IInv, StoreInv, OneRecordEach
<1> QED
  BY InvHolds, <1>1, PTL

-----------------------------------------------------------------------------
(* Freshness.  A source only moves to later snapshots, so once the wrapper *)
(* is stale it stays so until it restarts; until then every record and     *)
(* every accepted outcome is of the wrapper's snapshot.                    *)

FreshRecord(r) == Digest[r.from] = snapshot /\ (Fresh => r.from = source)

FreshInv ==
    /\ Digest[source] >= snapshot
    /\ \A s \in States :
          EntryOf(s).phase \in Completed \cup {"failed"} => FreshRecord(EntryOf(s))
    /\ pc = "accepted" => FreshRecord(outcome)
    /\ pc = "returned" => (Fresh => outcome.from = source)

LEMMA FreshStep ==
    ASSUME ~Recurring, IInv, FreshInv, [Next]_vars
    PROVE  FreshInv'
<1> USE DEF At
<1>1. Digest \in [Sources -> Nat] /\ source \in Sources /\ snapshot \in Nat
  BY DigestAssumption DEF IInv, CallTypes
<1>2. /\ Unexpanded.phase \notin Completed \cup {"failed"}
      /\ "expanding" \notin Completed \cup {"failed"}
      /\ "cancelled" \notin Completed \cup {"failed"}
  BY DEF Unexpanded, Record, Completed
<1>3. CASE QuietStep
  <2>1. (\A s \in States : EntryOf(s)' = EntryOf(s)) /\ snapshot' = snapshot
    BY <1>3, QuietSteps DEF Quiet, Same
  <2>2. CASE \E new \in Sources : SourceChanges(new)
    <3>1. Digest[source'] > Digest[source] /\ source' \in Sources
      BY <2>2 DEF SourceChanges
    <3>2. Digest[source'] > snapshot' /\ ~Fresh'
      BY <1>1, <2>1, <3>1 DEF FreshInv, Fresh
    <3>3. pc' = pc /\ outcome' = outcome
      BY <2>2 DEF SourceChanges, call
    <3> QED
      BY <1>1, <2>1, <3>1, <3>2, <3>3 DEF FreshInv, FreshRecord
  <2>3. CASE ~ \E new \in Sources : SourceChanges(new)
    <3>1. source' = source /\ Fresh' = Fresh
      BY <1>3, <2>1, <2>3
      DEF QuietStep, Hit, Check, Refuse, Compute, Panic, Accept, Cancel, vars, Fresh
    <3>2. pc' = "returned" => \/ outcome'.from = source
                              \/ pc = "returned" /\ outcome' = outcome
      <4>1. CASE \/ \E phase \in Completed \cup {"cancelled"} : Compute(phase, FALSE)
                 \/ \E retry \in BOOLEAN : Compute("failed", retry)
        BY <4>1 DEF Compute, Record
      <4>2. CASE ~(\/ \E phase \in Completed \cup {"cancelled"} : Compute(phase, FALSE)
                   \/ \E retry \in BOOLEAN : Compute("failed", retry))
        <5>1. pc' \in {"checked", "idle", "unwinding", "accepted"} \/ (pc' = pc /\ outcome' = outcome)
          BY <1>3, <2>3, <4>2
          DEF QuietStep, Hit, Check, Refuse, Return, Panic, Accept, Cancel, vars, call
        <5> QED
          BY <5>1
      <4> QED
        BY <4>1, <4>2
    <3>3. pc' = "accepted" => \/ pc = "returned" /\ Fresh /\ outcome' = outcome
                              \/ pc = "accepted" /\ outcome' = outcome
      BY <1>3, <2>3
      DEF QuietStep, Hit, Check, Refuse, Return, Compute, Panic, Accept, Cancel, vars, call
    <3>4. pc' = "accepted" => FreshRecord(outcome)'
      BY <2>1, <3>1, <3>3 DEF FreshInv, FreshRecord, Fresh
    <3> QED
      BY <2>1, <3>1, <3>2, <3>4 DEF FreshInv, FreshRecord
  <2> QED
    BY <2>2, <2>3
<1>4. CASE ForgettingStep
  <2>1. Forgetting
    BY <1>4, ForgettingSteps
  <2>2. pc' = "idle" /\ source' = source /\ snapshot' = snapshot
    BY <2>1 DEF Forgetting, Return, call
  <2> QED
    BY <1>2, <2>1, <2>2 DEF Forgetting, Drops, FreshInv, FreshRecord, Fresh
<1>5. CASE RestartingStep
  <2>1. Restarting
    BY <1>5, RestartingSteps
  <2>2. pc' = "idle" /\ snapshot' = Digest[source'] /\ snapshot' \in Nat
    BY <1>1, <2>1 DEF Restarting, Return, call
  <2> QED
    BY <1>2, <2>1, <2>2 DEF Restarting, FreshInv
<1>6. CASE WritingStep
  <2>1. PICK r : /\ Writing(r)
                 /\ r.phase \in Completed \cup {"failed"} => FreshRecord(r)
    <3>1. Record("expanding", FALSE, attempts', NULL).phase = "expanding"
          /\ Cancelled(attempts).phase = "cancelled"
      BY DEF Record, Cancelled
    <3>2. Fail \/ Complete => FreshRecord(outcome)
      BY DEF Fail, Complete, FreshInv
    <3> QED
      BY <1>2, <1>6, <3>1, <3>2, WritingSteps DEF WritingStep
  <2>2. source' = source /\ snapshot' = snapshot
    BY <2>1 DEF Writing
  <2>3. pc' \in {"idle", "invoking"}
    BY <1>6 DEF WritingStep, Precancel, Begin, CancelWins, Fail, Complete, Return
  <2>4. \A s \in States : EntryOf(s)' \in {r, EntryOf(s), Unexpanded}
    BY <2>1 DEF Writing
  <2> QED
    BY <1>2, <2>1, <2>2, <2>3, <2>4 DEF FreshInv, FreshRecord, Fresh
<1> QED
  BY <1>3, <1>4, <1>5, <1>6, StepCases

(* No retained result is of another snapshot than the wrapper's, nor, while *)
(* the wrapper is fresh, of another source than the present one, provided   *)
(* snapshots never recur.                                                   *)
THEOREM Freshness ==
    ASSUME ~Recurring
    PROVE  Spec => []RetainedIsFresh
<1>1. Init => FreshInv
  <2> SUFFICES ASSUME Init PROVE FreshInv
    OBVIOUS
  <2>1. \A s \in States : EntryOf(s) = Unexpanded
    BY EmptyCacheFacts DEF Init, EntryOf
  <2>2. snapshot = Digest[source] /\ snapshot \in Nat /\ pc = "idle"
    BY DigestAssumption DEF Init
  <2> QED
    BY <2>1, <2>2 DEF FreshInv, Unexpanded, Record, Completed
<1>2. IInv /\ FreshInv /\ [Next]_vars => FreshInv'
  BY FreshStep
<1>3. FreshInv => RetainedIsFresh
  BY DEF FreshInv, RetainedIsFresh, Retained, FreshRecord
<1> QED
  BY InvHolds, <1>1, <1>2, <1>3, PTL DEF Spec

-----------------------------------------------------------------------------
(* Attempt numbers.  While a call is at the source its state carries the   *)
(* present number, which no other numbered record does below saturation;   *)
(* the outcome that replaces the record carries it too.                    *)

Numbered(s) == EntryOf(s).phase \notin {"unexpanded", "cancelled"}

AttemptInv ==
    /\ \A s \in States : EntryOf(s).attempt \in 0..attempts
    /\ \A s, t \in States :
          /\ Numbered(s) /\ Numbered(t)
          /\ EntryOf(s).attempt = EntryOf(t).attempt
          /\ EntryOf(s).attempt < MaxAttempts
          => s = t
    /\ pc \in Invoking => \A s \in States : s = state => EntryOf(s).attempt = attempts
    /\ pc \in {"returned", "accepted"} => outcome.attempt = attempts

LEMMA AttemptStep ==
    ASSUME IInv, AttemptInv, [Next]_vars
    PROVE  AttemptInv'
<1> USE DEF At
<1>1. /\ attempts \in Nat /\ MaxAttempts \in Nat /\ attempts <= MaxAttempts
      /\ pc # "idle" => state \in States
      /\ OwnerInv
  BY AttemptsAssumption DEF IInv, CallTypes
<1>2. Unexpanded.phase = "unexpanded" /\ Unexpanded.attempt = 0
  BY DEF Unexpanded, Record
<1>3. CASE QuietStep
  <2>1. (\A s \in States : EntryOf(s)' = EntryOf(s)) /\ attempts' = attempts
    BY <1>3, QuietSteps DEF Quiet, Same
  <2>2. pc' \in Invoking => pc \in Invoking /\ state' = state
    BY <1>3 DEF QuietStep, Hit, Check, Refuse, Return, Compute, Panic, Accept, Cancel,
                SourceChanges, vars, call, Invoking
  <2>3. pc' \in {"returned", "accepted"} => outcome'.attempt = attempts
    <3>1. CASE \/ \E phase \in Completed \cup {"cancelled"} : Compute(phase, FALSE)
               \/ \E retry \in BOOLEAN : Compute("failed", retry)
      BY <3>1 DEF Compute, Record
    <3>2. CASE ~(\/ \E phase \in Completed \cup {"cancelled"} : Compute(phase, FALSE)
                 \/ \E retry \in BOOLEAN : Compute("failed", retry))
      <4>1. \/ pc' \in {"checked", "idle", "unwinding"}
            \/ pc \in {"returned", "accepted"} /\ outcome' = outcome
            \/ pc' = pc /\ outcome' = outcome
        BY <1>3, <3>2
        DEF QuietStep, Hit, Check, Refuse, Return, Panic, Accept, Cancel, SourceChanges, vars, call
      <4> QED
        BY <4>1 DEF AttemptInv
    <3> QED
      BY <3>1, <3>2
  <2> QED
    BY <2>1, <2>2, <2>3 DEF AttemptInv, Numbered
<1>4. CASE ForgettingStep
  <2>1. Forgetting
    BY <1>4, ForgettingSteps
  <2>2. pc' = "idle" /\ attempts' = attempts
    BY <2>1 DEF Forgetting, Return, call
  <2>3. \A s \in States : EntryOf(s)' = EntryOf(s) \/ EntryOf(s)' = Unexpanded
    BY <2>1 DEF Forgetting, Drops
  <2> QED
    BY <1>1, <1>2, <2>2, <2>3 DEF AttemptInv, Numbered, Invoking
<1>5. CASE RestartingStep
  <2>1. Restarting
    BY <1>5, RestartingSteps
  <2>2. pc' = "idle" /\ attempts' = 0
    BY <2>1 DEF Restarting, Return, call
  <2> QED
    BY <1>2, <2>1, <2>2 DEF Restarting, AttemptInv, Numbered, Invoking
<1>6. CASE Begin
  <2> DEFINE r == Record("expanding", FALSE, attempts', NULL)
  <2>1. Writing(r)
    BY <1>6, WritingSteps
  <2>2. r.attempt = attempts'
    BY DEF Record
  <2> HIDE DEF r
  <2>3. /\ attempts' = IF attempts = MaxAttempts THEN attempts ELSE attempts + 1
        /\ state' = state /\ pc' = "invoking" /\ state \in States
    BY <1>1, <1>6 DEF Begin
  <2>4. attempts' < MaxAttempts => \A s \in States : EntryOf(s).attempt < attempts'
    BY <1>1, <2>3 DEF AttemptInv
  <2>5. \A s \in States : EntryOf(s).attempt \in 0..attempts
    BY DEF AttemptInv
  <2>6. \A s \in States : EntryOf(s)' = r \/ EntryOf(s)' = EntryOf(s) \/ EntryOf(s)' = Unexpanded
    BY <2>1 DEF Writing
  <2>7. \A s \in States : EntryOf(s)'.attempt \in 0..attempts'
    BY <1>1, <1>2, <2>2, <2>3, <2>5, <2>6
  <2>8. \A s, t \in States :
            /\ Numbered(s)' /\ Numbered(t)' /\ EntryOf(s)'.attempt = EntryOf(t)'.attempt
            /\ EntryOf(s)'.attempt < MaxAttempts
            => s = t
    <3> SUFFICES ASSUME NEW s \in States, NEW t \in States, s # t,
                        Numbered(s)', Numbered(t)', EntryOf(s)'.attempt = EntryOf(t)'.attempt,
                        EntryOf(s)'.attempt < MaxAttempts
                 PROVE  FALSE
      OBVIOUS
    <3>1. EntryOf(s)' # Unexpanded /\ EntryOf(t)' # Unexpanded
      BY <1>2 DEF Numbered
    <3>2. \A u \in States : u = state => EntryOf(u)' = r
      BY <2>1 DEF Writing
    <3>3. CASE s # state /\ t # state
      <4>1. EntryOf(s)' = EntryOf(s) /\ EntryOf(t)' = EntryOf(t)
        BY <2>1, <3>1, <3>3 DEF Writing
      <4> QED
        BY <4>1 DEF AttemptInv, Numbered
    <3>4. CASE s = state
      <4>1. EntryOf(t)' = EntryOf(t) /\ EntryOf(s)' = r
        BY <2>1, <3>1, <3>2, <3>4 DEF Writing
      <4> QED
        BY <1>1, <2>2, <2>3, <2>4, <2>5, <4>1
    <3>5. CASE t = state
      <4>1. EntryOf(s)' = EntryOf(s) /\ EntryOf(t)' = r
        BY <2>1, <3>1, <3>2, <3>5 DEF Writing
      <4> QED
        BY <1>1, <2>2, <2>3, <2>4, <2>5, <4>1
    <3> QED
      BY <3>3, <3>4, <3>5
  <2>9. \A s \in States : s = state => EntryOf(s)'.attempt = attempts'
    BY <2>1, <2>2 DEF Writing
  <2> QED
    BY <2>3, <2>7, <2>8, <2>9 DEF AttemptInv
<1>7. CASE Precancel \/ CancelWins \/ Fail \/ Complete
  <2>1. PICK r : /\ Writing(r) /\ r.attempt = attempts
                 /\ r.phase # "cancelled" => pc \in Invoking
    <3>1. Cancelled(attempts).phase = "cancelled" /\ Cancelled(attempts).attempt = attempts
      BY DEF Cancelled, Record
    <3>2. Fail \/ Complete => outcome.attempt = attempts /\ pc \in Invoking
      BY DEF Fail, Complete, AttemptInv, Invoking
    <3> QED
      BY <1>7, <3>1, <3>2, WritingSteps
  <2>2. pc' = "idle" /\ attempts' = attempts
    BY <1>7 DEF Precancel, CancelWins, Fail, Complete, Return
  <2>3. \A s \in States : Numbered(s)' => EntryOf(s)'.attempt = EntryOf(s).attempt /\ Numbered(s)
    <3> SUFFICES ASSUME NEW s \in States, Numbered(s)'
                 PROVE  EntryOf(s)'.attempt = EntryOf(s).attempt /\ Numbered(s)
      OBVIOUS
    <3>1. CASE s = state
      <4>1. EntryOf(s)' = r
        BY <2>1, <3>1 DEF Writing
      <4>2. pc \in Invoking
        BY <2>1, <4>1 DEF Numbered
      <4>3. EntryOf(s).attempt = attempts /\ EntryOf(s).phase = "expanding"
        BY <1>1, <3>1, <4>2 DEF AttemptInv, OwnerInv
      <4> QED
        BY <2>1, <4>1, <4>3 DEF Numbered
    <3>2. CASE s # state
      <4>1. EntryOf(s)' = EntryOf(s)
        BY <1>2, <2>1, <3>2 DEF Writing, Numbered
      <4> QED
        BY <4>1 DEF Numbered
    <3> QED
      BY <3>1, <3>2
  <2>4. \A s \in States : EntryOf(s)'.attempt \in 0..attempts
    BY <1>1, <1>2, <2>1 DEF Writing, AttemptInv
  <2> QED
    BY <2>2, <2>3, <2>4 DEF AttemptInv, Invoking
<1> QED
  BY <1>3, <1>4, <1>5, <1>6, <1>7, StepCases DEF WritingStep

(* Below saturation an attempt number names one retained attempt, across   *)
(* retries, cancellations, evictions and panics.                           *)
THEOREM Attempts == Spec => []AttemptsIdentify
<1>1. Init => AttemptInv
  <2> SUFFICES ASSUME Init PROVE AttemptInv
    OBVIOUS
  <2>1. \A s \in States : EntryOf(s) = Unexpanded
    BY EmptyCacheFacts DEF Init, EntryOf
  <2>2. attempts = 0 /\ pc = "idle"
    BY DEF Init
  <2> QED
    BY <2>1, <2>2 DEF AttemptInv, Numbered, Unexpanded, Record, Invoking
<1>2. IInv /\ AttemptInv /\ [Next]_vars => AttemptInv'
  BY AttemptStep
<1>3. IInv /\ AttemptInv => AttemptsIdentify
  <2> SUFFICES ASSUME IInv, AttemptInv PROVE AttemptsIdentify
    OBVIOUS
  <2>1. \A r \in Retained : r.attempt <= attempts
    BY DEF Retained, AttemptInv, IInv, CallTypes
  <2> QED
    BY <2>1 DEF AttemptInv, Numbered, AttemptsIdentify
<1> QED
  BY InvHolds, <1>1, <1>2, <1>3, PTL DEF Spec


-----------------------------------------------------------------------------
(* The effect of each operator on the links.                               *)

NextOf(c, t) == c.entries[t].next
PreviousOf(c, t) == c.entries[t].previous

(* One link write changes one link of one entry.                           *)
LEMMA SetNextEffect ==
    ASSUME NEW c, NEW R, NEW s, NEW to, IsCache(c, R)
    PROVE  /\ SetNext(c, s, to).head = c.head /\ SetNext(c, s, to).tail = c.tail
           /\ \A t \in Cached(c) :
                 /\ PreviousOf(SetNext(c, s, to), t) = PreviousOf(c, t)
                 /\ NextOf(SetNext(c, s, to), t) = IF t = s THEN to ELSE NextOf(c, t)
<1> DEFINE d == SetNext(c, s, to)
<1>1. d = [entries |-> [c.entries EXCEPT ![s] = [@ EXCEPT !.next = to]],
           head |-> c.head, tail |-> c.tail]
  BY DEF SetNext, IsCache
<1>2. d.head = c.head /\ d.tail = c.tail
  BY <1>1
<1>3. \A t \in Cached(c) :
         d.entries[t] = IF t = s THEN [c.entries[t] EXCEPT !.next = to] ELSE c.entries[t]
  BY <1>1 DEF Cached
<1> HIDE DEF d
<1>4. ASSUME NEW t \in Cached(c)
      PROVE  /\ PreviousOf(d, t) = PreviousOf(c, t)
             /\ NextOf(d, t) = IF t = s THEN to ELSE NextOf(c, t)
  <2> DEFINE e == c.entries[t]
  <2>1. e = Entry(e.record, e.previous, e.next)
    BY DEF IsCache, IsEntry
  <2>2. [e EXCEPT !.next = to] = Entry(e.record, e.previous, to)
    BY <2>1 DEF Entry
  <2>3. d.entries[t] = IF t = s THEN Entry(e.record, e.previous, to) ELSE e
    BY <1>3, <2>2
  <2> HIDE DEF e
  <2> QED BY <2>3 DEF NextOf, PreviousOf, Entry, e
<1> QED BY <1>2, <1>4 DEF d

LEMMA SetPreviousEffect ==
    ASSUME NEW c, NEW R, NEW s, NEW to, IsCache(c, R)
    PROVE  /\ SetPrevious(c, s, to).head = c.head /\ SetPrevious(c, s, to).tail = c.tail
           /\ \A t \in Cached(c) :
                 /\ PreviousOf(SetPrevious(c, s, to), t) = IF t = s THEN to
                                                           ELSE PreviousOf(c, t)
                 /\ NextOf(SetPrevious(c, s, to), t) = NextOf(c, t)
<1> DEFINE d == SetPrevious(c, s, to)
<1>1. d = [entries |-> [c.entries EXCEPT ![s] = [@ EXCEPT !.previous = to]],
           head |-> c.head, tail |-> c.tail]
  BY DEF SetPrevious, IsCache
<1>2. d.head = c.head /\ d.tail = c.tail
  BY <1>1
<1>3. \A t \in Cached(c) :
         d.entries[t] = IF t = s THEN [c.entries[t] EXCEPT !.previous = to] ELSE c.entries[t]
  BY <1>1 DEF Cached
<1> HIDE DEF d
<1>4. ASSUME NEW t \in Cached(c)
      PROVE  /\ PreviousOf(d, t) = IF t = s THEN to ELSE PreviousOf(c, t)
             /\ NextOf(d, t) = NextOf(c, t)
  <2> DEFINE e == c.entries[t]
  <2>1. e = Entry(e.record, e.previous, e.next)
    BY DEF IsCache, IsEntry
  <2>2. [e EXCEPT !.previous = to] = Entry(e.record, to, e.next)
    BY <2>1 DEF Entry
  <2>3. d.entries[t] = IF t = s THEN Entry(e.record, to, e.next) ELSE e
    BY <1>3, <2>2
  <2> HIDE DEF e
  <2> QED BY <2>3 DEF NextOf, PreviousOf, Entry, e
<1> QED BY <1>2, <1>4 DEF d

(* An end moves alone.                                                     *)
LEMMA SetHeadEffect ==
    ASSUME NEW c, NEW R, NEW to, IsCache(c, R)
    PROVE  /\ SetHead(c, to).head = to /\ SetHead(c, to).tail = c.tail
           /\ \A t : /\ NextOf(SetHead(c, to), t) = NextOf(c, t)
                     /\ PreviousOf(SetHead(c, to), t) = PreviousOf(c, t)
  BY DEF SetHead, IsCache, NextOf, PreviousOf

LEMMA SetTailEffect ==
    ASSUME NEW c, NEW R, NEW to, IsCache(c, R)
    PROVE  /\ SetTail(c, to).head = c.head /\ SetTail(c, to).tail = to
           /\ \A t : /\ NextOf(SetTail(c, to), t) = NextOf(c, t)
                     /\ PreviousOf(SetTail(c, to), t) = PreviousOf(c, t)
  BY DEF SetTail, IsCache, NextOf, PreviousOf

(* How removing s relinks the entry t of the rest.                         *)
LEMMA RemoveCachedEffect ==
    ASSUME NEW c, NEW R, NEW s \in Cached(c), IsCache(c, R)
    PROVE  /\ RemoveCached(c, s).head = IF PreviousOf(c, s) = NULL /\ c.head = s
                                        THEN NextOf(c, s) ELSE c.head
           /\ RemoveCached(c, s).tail = IF NextOf(c, s) = NULL /\ c.tail = s
                                        THEN PreviousOf(c, s) ELSE c.tail
           /\ \A t \in Cached(c) \ {s} :
                 /\ NextOf(RemoveCached(c, s), t) =
                       IF PreviousOf(c, s) # NULL /\ t = PreviousOf(c, s)
                       THEN NextOf(c, s) ELSE NextOf(c, t)
                 /\ PreviousOf(RemoveCached(c, s), t) =
                       IF NextOf(c, s) # NULL /\ t = NextOf(c, s)
                       THEN PreviousOf(c, s) ELSE PreviousOf(c, t)
<1> DEFINE e == c.entries[s]
           without == [c EXCEPT !.entries = Without(c.entries, s)]
           forward == IF e.previous # NULL THEN SetNext(without, e.previous, e.next)
                      ELSE IF c.head = s THEN SetHead(without, e.next) ELSE without
           result == IF e.next # NULL THEN SetPrevious(forward, e.next, e.previous)
                     ELSE IF c.tail = s THEN SetTail(forward, e.previous) ELSE forward
<1>1. without = [entries |-> Without(c.entries, s), head |-> c.head, tail |-> c.tail]
  BY DEF IsCache
<1>2. /\ IsCache(without, R) /\ Cached(without) = Cached(c) \ {s}
      /\ without.head = c.head /\ without.tail = c.tail
      /\ \A t \in Cached(c) \ {s} : NextOf(without, t) = NextOf(c, t)
                                    /\ PreviousOf(without, t) = PreviousOf(c, t)
  BY <1>1 DEF IsCache, Cached, Without, NextOf, PreviousOf
<1>3. e.next = NextOf(c, s) /\ e.previous = PreviousOf(c, s)
  BY DEF NextOf, PreviousOf
<1> HIDE DEF without, e
<1>4. IsCache(forward, R) /\ Cached(forward) = Cached(c) \ {s}
  <2>1. IsCache(SetNext(without, e.previous, e.next), R)
        /\ Cached(SetNext(without, e.previous, e.next)) = Cached(without)
    BY <1>2, SetLinkFacts
  <2>2. IsCache(SetHead(without, e.next), R)
        /\ SetHead(without, e.next).entries = without.entries
    BY <1>2, SetEndFacts
  <2> QED BY <1>2, <2>1, <2>2 DEF Cached
<1>5. /\ forward.tail = c.tail
      /\ forward.head = IF e.previous = NULL /\ c.head = s THEN e.next ELSE c.head
      /\ \A t \in Cached(c) \ {s} :
            /\ NextOf(forward, t) = IF e.previous # NULL /\ t = e.previous
                                    THEN e.next ELSE NextOf(c, t)
            /\ PreviousOf(forward, t) = PreviousOf(c, t)
  <2>1. CASE e.previous # NULL
    BY <1>2, <2>1, SetNextEffect
  <2>2. CASE e.previous = NULL
    BY <1>2, <2>2, SetHeadEffect
  <2> QED BY <2>1, <2>2
<1> HIDE DEF forward
<1>6. /\ result.head = forward.head
      /\ result.tail = IF e.next = NULL /\ c.tail = s THEN e.previous ELSE c.tail
      /\ \A t \in Cached(c) \ {s} :
            /\ NextOf(result, t) = NextOf(forward, t)
            /\ PreviousOf(result, t) = IF e.next # NULL /\ t = e.next
                                       THEN e.previous ELSE PreviousOf(forward, t)
  <2>1. CASE e.next # NULL
    BY <1>4, <1>5, <2>1, SetPreviousEffect
  <2>2. CASE e.next = NULL
    <3>1. /\ SetTail(forward, e.previous).head = forward.head
          /\ SetTail(forward, e.previous).tail = e.previous
          /\ \A t : /\ NextOf(SetTail(forward, e.previous), t) = NextOf(forward, t)
                    /\ PreviousOf(SetTail(forward, e.previous), t) = PreviousOf(forward, t)
      BY <1>4, SetTailEffect
    <3> QED BY <1>5, <2>2, <3>1
  <2> QED BY <2>1, <2>2
<1>7. RemoveCached(c, s) = result
  BY DEF RemoveCached, result, forward, without, e
<1> HIDE DEF result
<1> QED BY <1>3, <1>5, <1>6, <1>7

(* touch_lru relinks the rest as remove_cached does, and appends s.        *)
LEMMA TouchLruEffect ==
    ASSUME NEW c, NEW R, NEW s \in Cached(c), IsCache(c, R),
           c.tail # s, c.tail # NULL, c.tail \in Cached(c),
           PreviousOf(c, s) = NULL => c.head = s
    PROVE  /\ TouchLru(c, s).head = RemoveCached(c, s).head
           /\ TouchLru(c, s).tail = s
           /\ NextOf(TouchLru(c, s), s) = NULL /\ PreviousOf(TouchLru(c, s), s) = c.tail
           /\ \A t \in Cached(c) \ {s} :
                 /\ NextOf(TouchLru(c, s), t) = IF t = c.tail THEN s
                                                ELSE NextOf(RemoveCached(c, s), t)
                 /\ PreviousOf(TouchLru(c, s), t) = PreviousOf(RemoveCached(c, s), t)
<1> DEFINE e == c.entries[s]
           forward == IF e.previous # NULL THEN SetNext(c, e.previous, e.next)
                                           ELSE SetHead(c, e.next)
           closed  == IF e.next # NULL THEN SetPrevious(forward, e.next, e.previous)
                                       ELSE forward
           new     == Entry(e.record, c.tail, NULL)
           own     == [closed EXCEPT !.entries[s] = new]
           linked  == SetNext(own, c.tail, s)
<1>1. e.next = NextOf(c, s) /\ e.previous = PreviousOf(c, s)
  BY DEF NextOf, PreviousOf
<1>2. TouchLru(c, s) = SetTail(linked, s)
  BY DEF TouchLru, linked, own, closed, forward, new, e
<1>3. e.record \in R /\ IsEntry(new, R) /\ new.next = NULL /\ new.previous = c.tail
  BY DEF IsCache, IsEntry, Entry
<1> HIDE DEF e, new
<1>4. IsCache(forward, R) /\ Cached(forward) = Cached(c)
  <2>1. IsCache(SetNext(c, e.previous, e.next), R)
        /\ Cached(SetNext(c, e.previous, e.next)) = Cached(c)
    BY SetLinkFacts
  <2>2. IsCache(SetHead(c, e.next), R) /\ SetHead(c, e.next).entries = c.entries
    BY SetEndFacts
  <2> QED BY <2>1, <2>2 DEF Cached
<1>5. /\ forward.head = IF e.previous = NULL THEN e.next ELSE c.head
      /\ \A t \in Cached(c) :
            /\ NextOf(forward, t) = IF e.previous # NULL /\ t = e.previous
                                    THEN e.next ELSE NextOf(c, t)
            /\ PreviousOf(forward, t) = PreviousOf(c, t)
  <2>1. CASE e.previous # NULL
    BY <2>1, SetNextEffect
  <2>2. CASE e.previous = NULL
    BY <2>2, SetHeadEffect
  <2> QED BY <2>1, <2>2
<1> HIDE DEF forward
<1>6. IsCache(closed, R) /\ Cached(closed) = Cached(c)
  BY <1>4, SetLinkFacts
<1>7. /\ closed.head = forward.head
      /\ \A t \in Cached(c) :
            /\ NextOf(closed, t) = NextOf(forward, t)
            /\ PreviousOf(closed, t) = IF e.next # NULL /\ t = e.next
                                       THEN e.previous ELSE PreviousOf(forward, t)
  BY <1>4, SetPreviousEffect
<1> HIDE DEF closed
<1>8. own = [entries |-> [closed.entries EXCEPT ![s] = new],
             head |-> closed.head, tail |-> closed.tail]
  BY <1>6 DEF IsCache
<1>9. /\ Cached(own) = Cached(c) /\ own.head = closed.head
      /\ \A t \in Cached(c) : own.entries[t] = IF t = s THEN new ELSE closed.entries[t]
      /\ own.entries = [t \in Cached(own) |-> own.entries[t]]
      /\ own = [entries |-> own.entries, head |-> own.head, tail |-> own.tail]
  BY <1>6, <1>8 DEF Cached
<1> HIDE DEF own
<1>10. IsCache(own, R)
  BY <1>3, <1>6, <1>9 DEF IsCache
<1>11. \A t \in Cached(c) :
          /\ NextOf(own, t) = IF t = s THEN NULL ELSE NextOf(closed, t)
          /\ PreviousOf(own, t) = IF t = s THEN c.tail ELSE PreviousOf(closed, t)
  BY <1>3, <1>9 DEF NextOf, PreviousOf
<1>12. /\ IsCache(linked, R) /\ Cached(linked) = Cached(c) /\ linked.head = own.head
       /\ \A t \in Cached(c) :
             /\ NextOf(linked, t) = IF t = c.tail THEN s ELSE NextOf(own, t)
             /\ PreviousOf(linked, t) = PreviousOf(own, t)
  BY <1>9, <1>10, SetLinkFacts, SetNextEffect
<1> HIDE DEF linked
<1>13. /\ TouchLru(c, s).head = closed.head /\ TouchLru(c, s).tail = s
       /\ \A t \in Cached(c) :
             /\ NextOf(TouchLru(c, s), t) = IF t = c.tail THEN s
                                            ELSE IF t = s THEN NULL ELSE NextOf(closed, t)
             /\ PreviousOf(TouchLru(c, s), t) = IF t = s THEN c.tail ELSE PreviousOf(closed, t)
  <2>1. /\ SetTail(linked, s).head = linked.head /\ SetTail(linked, s).tail = s
        /\ \A t : /\ NextOf(SetTail(linked, s), t) = NextOf(linked, t)
                  /\ PreviousOf(SetTail(linked, s), t) = PreviousOf(linked, t)
    BY <1>12, SetTailEffect
  <2> QED BY <1>2, <1>9, <1>11, <1>12, <2>1
<1>14. \A t \in Cached(c) \ {s} :
          /\ NextOf(closed, t) = NextOf(RemoveCached(c, s), t)
          /\ PreviousOf(closed, t) = PreviousOf(RemoveCached(c, s), t)
  BY <1>1, <1>5, <1>7, RemoveCachedEffect
<1>15. closed.head = RemoveCached(c, s).head
  BY <1>1, <1>5, <1>7, RemoveCachedEffect
<1> QED BY <1>13, <1>14, <1>15

-----------------------------------------------------------------------------
(* Chains: the enumeration that the links follow.                          *)

LEMMA LeastNumber ==
    ASSUME NEW T, T \subseteq Nat, T # {}
    PROVE  \E m \in T : \A n \in T : m <= n
<1> DEFINE R == OpToRel(<, Nat)
<1>1. IsWellFoundedOn(R, Nat)
  BY NatLessThanWellFounded
<1>2. \A m, n \in Nat : <<n, m>> \in R <=> n < m
  BY DEF OpToRel
<1> HIDE DEF R
<1>3. PICK m \in T : \A n \in T : ~ (<<n, m>> \in R)
  BY <1>1, WFMin
<1>4. ASSUME NEW n \in T PROVE m <= n
  <2>1. m \in Nat /\ n \in Nat /\ ~(n < m)
    BY <1>2, <1>3
  <2> QED BY <2>1
<1> QED BY <1>3, <1>4

(* `at` lists the n cached states from head to tail along the links, each  *)
(* once.                                                                   *)
Enumerates(S, n, at) ==
    /\ at \in [1..n -> S]
    /\ \A j, k \in 1..n : at[j] = at[k] => j = k
    /\ \A s \in S : \E k \in 1..n : at[k] = s

Linked(c, n, at) ==
    /\ c.head = IF n = 0 THEN NULL ELSE at[1]
    /\ c.tail = IF n = 0 THEN NULL ELSE at[n]
    /\ \A k \in 1..n : /\ PreviousOf(c, at[k]) = IF k = 1 THEN NULL ELSE at[k-1]
                       /\ NextOf(c, at[k]) = IF k = n THEN NULL ELSE at[k+1]

Chain(c, n, at) == Enumerates(Cached(c), n, at) /\ Linked(c, n, at)

Chained(c) == \E n \in Nat : \E at \in [1..n -> Cached(c)] : Chain(c, n, at)

LEMMA EnumerationCounts ==
    ASSUME NEW S, NEW n \in Nat, NEW at, Enumerates(S, n, at)
    PROVE  IsFiniteSet(S) /\ Cardinality(S) = n
<1>1. at \in Bijection(1..n, S)
  BY DEF Enumerates, Bijection, Injection, Surjection, IsInjective
<1>2. ExistsBijection(1..n, S)
  BY <1>1 DEF ExistsBijection
<1> QED BY <1>2, FS_NatBijection, FS_CountingElements

(* The walk follows the chain: there is only one.                          *)
LEMMA WalkIsChain ==
    ASSUME NEW c, NULL \notin Cached(c), NEW n \in Nat, NEW at, Chain(c, n, at)
    PROVE  AccessOrder(c) = at
<1> DEFINE step(g) == [k \in 1..n |->
                          IF k = 1 THEN c.head
                          ELSE IF g[k-1] \in Cached(c) THEN c.entries[g[k-1]].next ELSE NULL]
           f == CHOOSE g : g = step(g)
           differing == {k \in 1..n : f[k] # at[k]}
<1>0. /\ at \in [1..n -> Cached(c)]
      /\ n > 0 => at[1] = c.head
      /\ \A k \in 1..n : k # 1 => c.entries[at[k-1]].next = at[k]
  <2>1. at \in [1..n -> Cached(c)] /\ (n > 0 => at[1] = c.head)
    BY DEF Chain, Enumerates, Linked
  <2>2. ASSUME NEW k \in 1..n, k # 1 PROVE c.entries[at[k-1]].next = at[k]
    <3>1. k - 1 \in 1..n /\ k - 1 # n /\ (k - 1) + 1 = k
      BY <2>2
    <3> QED BY <3>1 DEF Chain, Linked, NextOf
  <2> QED BY <2>1, <2>2
<1>1. at = step(at)
  <2>1. \A k \in 1..n : k # 1 => k - 1 \in 1..n
    OBVIOUS
  <2>2. \A k \in 1..n : at[k] = step(at)[k]
    BY <1>0, <2>1
  <2> QED BY <1>0, <2>2
<1>2. f = step(f)
  BY <1>1
<1>3. AccessOrder(c) = [k \in 1..n |-> f[k]]
  <2>1. Cardinality(Cached(c)) = n
    BY EnumerationCounts DEF Chain
  <2> QED BY <2>1 DEF AccessOrder
<1>4. differing = {}
  <2>1. SUFFICES ASSUME differing # {} PROVE FALSE
    OBVIOUS
  <2>2. PICK m \in differing : \A k \in differing : m <= k
    <3>1. differing \subseteq Nat
      OBVIOUS
    <3> HIDE DEF differing
    <3> QED BY <2>1, <3>1, LeastNumber
  <2>3. m \in 1..n /\ f[m] # at[m]
    BY <2>2
  <2>4. m # 1 => m - 1 \in 1..n /\ m - 1 \notin differing
    <3>1. m \in 1..n
      BY <2>3
    <3> HIDE DEF f, differing
    <3>2. m \in Nat /\ ~(m <= m - 1) /\ (m # 1 => m - 1 \in 1..n)
      BY ONLY <3>1
    <3> QED BY ONLY <2>2, <3>2
  <2>5. f[m] = IF m = 1 THEN c.head
               ELSE IF f[m-1] \in Cached(c) THEN c.entries[f[m-1]].next ELSE NULL
    BY <1>2, <2>3
  <2>6. at[m] = IF m = 1 THEN c.head
                ELSE IF at[m-1] \in Cached(c) THEN c.entries[at[m-1]].next ELSE NULL
    BY <1>1, <2>3
  <2> HIDE DEF f
  <2>7. m # 1 => f[m-1] = at[m-1]
    BY <2>4
  <2> QED BY <2>3, <2>5, <2>6, <2>7
<1> HIDE DEF f
<1>5. \A k \in 1..n : f[k] = at[k]
  BY <1>4
<1> QED BY <1>0, <1>3, <1>5

(* A chained cache is coherent: neighbours agree, and the walk finds every *)
(* entry.                                                                  *)
LEMMA ChainedIsCoherent ==
    ASSUME NEW c, NULL \notin Cached(c), Chained(c)
    PROVE  Coherent(c) /\ IsFiniteSet(Cached(c))
<1>0. PICK n \in Nat : \E at \in [1..n -> Cached(c)] : Chain(c, n, at)
  BY DEF Chained
<1>1. PICK at \in [1..n -> Cached(c)] : Chain(c, n, at)
  BY <1>0
<1>2. AccessOrder(c) = at
  BY <1>1, WalkIsChain
<1>3. /\ \A k \in 1..n : at[k] \in Cached(c)
      /\ \A s \in Cached(c) : \E k \in 1..n : at[k] = s
      /\ \A j, k \in 1..n : at[j] = at[k] => j = k
  BY <1>1 DEF Chain, Enumerates
<1>4. {AccessOrder(c)[k] : k \in DOMAIN AccessOrder(c)} = Cached(c)
  BY <1>2, <1>3
<1>5. /\ c.head = IF n = 0 THEN NULL ELSE at[1]
      /\ c.tail = IF n = 0 THEN NULL ELSE at[n]
  BY <1>1 DEF Chain, Linked
<1>6. (n = 0) <=> (Cached(c) = {})
  <2>1. n # 0 => 1 \in 1..n
    OBVIOUS
  <2>2. n = 0 => 1..n = {}
    OBVIOUS
  <2> QED BY <1>3, <2>1, <2>2
<1>7. (c.head = NULL <=> Cached(c) = {}) /\ (c.tail = NULL <=> Cached(c) = {})
  <2>1. n # 0 => at[1] \in Cached(c) /\ at[n] \in Cached(c)
    OBVIOUS
  <2> QED BY <1>5, <1>6, <2>1
<1>8. ASSUME NEW s \in Cached(c)
      PROVE  /\ IF PreviousOf(c, s) = NULL THEN c.head = s
                ELSE PreviousOf(c, s) \in Cached(c) /\ NextOf(c, PreviousOf(c, s)) = s
             /\ IF NextOf(c, s) = NULL THEN c.tail = s
                ELSE NextOf(c, s) \in Cached(c) /\ PreviousOf(c, NextOf(c, s)) = s
  <2>1. PICK k \in 1..n : at[k] = s
    BY <1>3
  <2>2. \A j \in 1..n : /\ PreviousOf(c, at[j]) = IF j = 1 THEN NULL ELSE at[j-1]
                        /\ NextOf(c, at[j]) = IF j = n THEN NULL ELSE at[j+1]
    BY <1>1 DEF Chain, Linked
  <2>3. CASE k = 1
    BY <1>5, <2>1, <2>2, <2>3
  <2>4. k # 1 => k - 1 \in 1..n /\ k - 1 # n /\ (k - 1) + 1 = k /\ at[k-1] # NULL
    BY <1>3
  <2>5. k # n => k + 1 \in 1..n /\ k + 1 # 1 /\ (k + 1) - 1 = k /\ at[k+1] # NULL
    BY <1>3
  <2>6. IF PreviousOf(c, s) = NULL THEN c.head = s
        ELSE PreviousOf(c, s) \in Cached(c) /\ NextOf(c, PreviousOf(c, s)) = s
    BY <1>3, <1>5, <2>1, <2>2, <2>4
  <2>7. IF NextOf(c, s) = NULL THEN c.tail = s
        ELSE NextOf(c, s) \in Cached(c) /\ PreviousOf(c, NextOf(c, s)) = s
    BY <1>3, <1>5, <2>1, <2>2, <2>5
  <2> QED BY <2>6, <2>7
<1>9. IsFiniteSet(Cached(c))
  BY <1>1, EnumerationCounts DEF Chain
<1> QED BY <1>4, <1>7, <1>8, <1>9 DEF Coherent, NextOf, PreviousOf

(* Closing the gap that the p-th state leaves.                             *)
Closed(n, at, p) == [k \in 1..(n-1) |-> IF k < p THEN at[k] ELSE at[k+1]]

LEMMA ClosedEnumerates ==
    ASSUME NEW S, NEW n \in Nat, NEW at, Enumerates(S, n, at), NEW p \in 1..n
    PROVE  Enumerates(S \ {at[p]}, n - 1, Closed(n, at, p))
<1> DEFINE b == Closed(n, at, p)
<1>1. /\ \A k \in 1..n : at[k] \in S
      /\ \A s \in S : \E k \in 1..n : at[k] = s
      /\ \A j, k \in 1..n : at[j] = at[k] => j = k
  BY DEF Enumerates
<1>2. \A k \in 1..(n-1) : b[k] = IF k < p THEN at[k] ELSE at[k+1]
  BY DEF Closed
<1>3. \A k \in 1..(n-1) : k \in 1..n /\ k + 1 \in 1..n /\ (k < p => k # p) /\ (~(k < p) => k + 1 # p)
  OBVIOUS
<1>4. \A k \in 1..(n-1) : b[k] \in S \ {at[p]}
  BY <1>1, <1>2, <1>3
<1>5. b \in [1..(n-1) -> S \ {at[p]}]
  <2>1. b = [k \in 1..(n-1) |-> b[k]]
    BY DEF Closed
  <2> HIDE DEF b
  <2> QED BY <1>4, <2>1
<1> HIDE DEF b
<1>6. ASSUME NEW s \in S \ {at[p]} PROVE \E k \in 1..(n-1) : b[k] = s
  <2>1. PICK k \in 1..n : at[k] = s /\ k # p
    BY <1>1
  <2>2. CASE k < p
    <3>1. k \in 1..(n-1)
      BY <2>2
    <3> QED BY <1>2, <2>1, <2>2, <3>1
  <2>3. CASE ~(k < p)
    <3>1. k - 1 \in 1..(n-1) /\ ~(k - 1 < p) /\ (k - 1) + 1 = k
      BY <2>1, <2>3
    <3> QED BY <1>2, <2>1, <3>1
  <2> QED BY <2>2, <2>3
<1>7. ASSUME NEW j \in 1..(n-1), NEW k \in 1..(n-1), b[j] = b[k] PROVE j = k
  <2>1. (IF j < p THEN j ELSE j + 1) = (IF k < p THEN k ELSE k + 1)
    BY <1>1, <1>2, <1>3, <1>7
  <2> QED BY <2>1
<1> QED BY <1>5, <1>6, <1>7 DEF b, Enumerates

LEMMA RemoveChain ==
    ASSUME NEW c, NEW R, IsCache(c, R), NULL \notin Cached(c),
           NEW n \in Nat, NEW at, Chain(c, n, at), NEW p \in 1..n
    PROVE  Chain(RemoveCached(c, at[p]), n - 1, Closed(n, at, p))
<1> DEFINE s == at[p]
           d == RemoveCached(c, s)
           b == Closed(n, at, p)
<1>1. /\ at \in [1..n -> Cached(c)]
      /\ \A j, k \in 1..n : at[j] = at[k] => j = k
      /\ c.head = at[1] /\ c.tail = at[n]
      /\ \A k \in 1..n : /\ PreviousOf(c, at[k]) = IF k = 1 THEN NULL ELSE at[k-1]
                         /\ NextOf(c, at[k]) = IF k = n THEN NULL ELSE at[k+1]
  BY DEF Chain, Enumerates, Linked
<1>2. s \in Cached(c) /\ Cached(d) = Cached(c) \ {s}
  BY <1>1, RemovedFromCache
<1>3. Enumerates(Cached(d), n - 1, b)
  BY <1>2, ClosedEnumerates DEF Chain
<1>4. /\ PreviousOf(c, s) = IF p = 1 THEN NULL ELSE at[p-1]
      /\ NextOf(c, s) = IF p = n THEN NULL ELSE at[p+1]
  BY <1>1
<1>5. \A k \in 1..n : at[k] # NULL /\ at[k] \in Cached(c)
  BY <1>1
<1>6. /\ d.head = IF p = 1 THEN NextOf(c, s) ELSE c.head
      /\ d.tail = IF p = n THEN PreviousOf(c, s) ELSE c.tail
  <2>1. (PreviousOf(c, s) = NULL /\ c.head = s) <=> p = 1
    <3>1. p # 1 => p - 1 \in 1..n
      OBVIOUS
    <3> QED BY <1>1, <1>4, <1>5, <3>1
  <2>2. (NextOf(c, s) = NULL /\ c.tail = s) <=> p = n
    <3>1. p # n => p + 1 \in 1..n
      OBVIOUS
    <3> QED BY <1>1, <1>4, <1>5, <3>1
  <2> HIDE DEF d, s
  <2> QED BY <1>2, <2>1, <2>2, RemoveCachedEffect DEF d
<1>7. ASSUME NEW k \in 1..n, k # p
      PROVE  /\ NextOf(d, at[k]) = IF k + 1 = p THEN NextOf(c, s) ELSE NextOf(c, at[k])
             /\ PreviousOf(d, at[k]) = IF k = p + 1 THEN PreviousOf(c, s)
                                       ELSE PreviousOf(c, at[k])
  <2>1. at[k] \in Cached(c) \ {s}
    BY <1>1, <1>7
  <2>2. (PreviousOf(c, s) # NULL /\ at[k] = PreviousOf(c, s)) <=> k + 1 = p
    <3>1. p # 1 => p - 1 \in 1..n
      OBVIOUS
    <3>2. k + 1 = p <=> (p # 1 /\ k = p - 1)
      OBVIOUS
    <3> QED BY <1>1, <1>4, <1>5, <3>1, <3>2
  <2>3. (NextOf(c, s) # NULL /\ at[k] = NextOf(c, s)) <=> k = p + 1
    <3>1. p # n => p + 1 \in 1..n
      OBVIOUS
    <3>2. k = p + 1 => p # n
      OBVIOUS
    <3> QED BY <1>1, <1>4, <1>5, <3>1, <3>2
  <2>4. /\ NextOf(d, at[k]) = IF PreviousOf(c, s) # NULL /\ at[k] = PreviousOf(c, s)
                              THEN NextOf(c, s) ELSE NextOf(c, at[k])
        /\ PreviousOf(d, at[k]) = IF NextOf(c, s) # NULL /\ at[k] = NextOf(c, s)
                                  THEN PreviousOf(c, s) ELSE PreviousOf(c, at[k])
    <3> HIDE DEF s, d
    <3> QED BY <1>2, <2>1, RemoveCachedEffect DEF d
  <2> QED BY <2>2, <2>3, <2>4
<1>8. \A k \in 1..(n-1) : b[k] = IF k < p THEN at[k] ELSE at[k+1]
  BY DEF Closed
<1> HIDE DEF d, s, b
<1>9. ASSUME NEW k \in 1..(n-1)
      PROVE  /\ PreviousOf(d, b[k]) = IF k = 1 THEN NULL ELSE b[k-1]
             /\ NextOf(d, b[k]) = IF k = n - 1 THEN NULL ELSE b[k+1]
  <2>1. k \in 1..n /\ k + 1 \in 1..n
    OBVIOUS
  <2>2. k # 1 => k - 1 \in 1..(n-1)
    OBVIOUS
  <2>3. k # n - 1 => k + 1 \in 1..(n-1)
    OBVIOUS
  <2>4. CASE k < p
    <3>1. b[k] = at[k] /\ k # p /\ k # p + 1
      BY <1>8, <2>4
    <3>2. PreviousOf(d, at[k]) = IF k = 1 THEN NULL ELSE at[k-1]
      BY <1>1, <1>7, <2>1, <3>1
    <3>3. k # 1 => b[k-1] = at[k-1]
      BY <1>8, <2>2, <2>4
    <3>4. NextOf(d, at[k]) = IF k + 1 = p THEN NextOf(c, s) ELSE at[k+1]
      BY <1>1, <1>7, <2>1, <2>4, <3>1
    <3>5. k # n - 1 => b[k+1] = IF k + 1 = p THEN at[p+1] ELSE at[k+1]
      BY <1>8, <2>3, <2>4
    <3>6. k = n - 1 => k + 1 = p /\ p = n
      BY <2>4
    <3>7. k # n - 1 /\ k + 1 = p => p # n
      OBVIOUS
    <3> QED BY <1>4, <3>1, <3>2, <3>3, <3>4, <3>5, <3>6, <3>7
  <2>5. CASE ~(k < p)
    <3>1. b[k] = at[k+1] /\ k + 1 # p /\ (k + 1) + 1 # p
      BY <1>8, <2>5
    <3>2. NextOf(d, at[k+1]) = IF k + 1 = n THEN NULL ELSE at[(k+1)+1]
      BY <1>1, <1>7, <2>1, <3>1
    <3>3. k # n - 1 => b[k+1] = at[(k+1)+1]
      BY <1>8, <2>3, <2>5
    <3>4. PreviousOf(d, at[k+1]) = IF k = p THEN PreviousOf(c, s) ELSE at[k]
      <4>1. k + 1 = p + 1 <=> k = p
        OBVIOUS
      <4>2. k + 1 # 1 /\ (k + 1) - 1 = k
        OBVIOUS
      <4> QED BY <1>1, <1>7, <2>1, <3>1, <4>1, <4>2
    <3>5. k # 1 => b[k-1] = IF k = p THEN at[p-1] ELSE at[k]
      <4>1. k # 1 /\ k # p => ~(k - 1 < p) /\ (k - 1) + 1 = k
        BY <2>5
      <4>2. k # 1 /\ k = p => k - 1 < p
        OBVIOUS
      <4> QED BY <1>8, <2>2, <4>1, <4>2
    <3>6. k = 1 => p = 1 /\ k = p
      BY <2>5
    <3>7. k + 1 = n <=> k = n - 1
      OBVIOUS
    <3> QED BY <1>4, <3>1, <3>2, <3>3, <3>4, <3>5, <3>6, <3>7
  <2> QED BY <2>4, <2>5
<1>10. d.head = IF n - 1 = 0 THEN NULL ELSE b[1]
  <2>1. n - 1 # 0 => 1 \in 1..(n-1)
    OBVIOUS
  <2>2. n - 1 # 0 => b[1] = IF 1 < p THEN at[1] ELSE at[2]
    BY <1>8, <2>1
  <2>3. (n - 1 = 0 => p = 1 /\ p = n) /\ (n - 1 # 0 /\ p = 1 => p # n)
    OBVIOUS
  <2>4. 1 < p <=> p # 1
    OBVIOUS
  <2> QED BY <1>1, <1>4, <1>6, <2>2, <2>3, <2>4
<1>11. d.tail = IF n - 1 = 0 THEN NULL ELSE b[n-1]
  <2>1. n - 1 # 0 => n - 1 \in 1..(n-1) /\ (n - 1) + 1 = n
    OBVIOUS
  <2>2. n - 1 # 0 => b[n-1] = IF n - 1 < p THEN at[n-1] ELSE at[n]
    BY <1>8, <2>1
  <2>3. (n - 1 = 0 => p = 1 /\ p = n) /\ (n - 1 # 0 /\ p = n => p # 1)
    OBVIOUS
  <2>4. n - 1 < p <=> p = n
    OBVIOUS
  <2> QED BY <1>1, <1>4, <1>6, <2>2, <2>3, <2>4
<1> QED BY <1>3, <1>9, <1>10, <1>11 DEF Chain, Linked, b, d, s

-----------------------------------------------------------------------------
(* Appending to a chain: touch_lru and the Lru arm of insert_completed.    *)

(* The chain with one more state behind its tail.                          *)
Appended(n, at, s) == [k \in 1..(n+1) |-> IF k = n + 1 THEN s ELSE at[k]]

LEMMA AppendedEnumerates ==
    ASSUME NEW S, NEW n \in Nat, NEW at, Enumerates(S, n, at), NEW s, s \notin S
    PROVE  Enumerates(S \cup {s}, n + 1, Appended(n, at, s))
<1> DEFINE b == Appended(n, at, s)
<1>1. /\ \A k \in 1..n : at[k] \in S
      /\ \A t \in S : \E k \in 1..n : at[k] = t
      /\ \A j, k \in 1..n : at[j] = at[k] => j = k
  BY DEF Enumerates
<1>2. \A k \in 1..(n+1) : b[k] = IF k = n + 1 THEN s ELSE at[k]
  BY DEF Appended
<1>3. \A k \in 1..(n+1) : k # n + 1 => k \in 1..n
  OBVIOUS
<1>4. \A k \in 1..n : k \in 1..(n+1) /\ k # n + 1
  OBVIOUS
<1>5. n + 1 \in 1..(n+1)
  OBVIOUS
<1>6. b \in [1..(n+1) -> S \cup {s}]
  <2>1. b = [k \in 1..(n+1) |-> b[k]]
    BY DEF Appended
  <2> HIDE DEF b
  <2>2. \A k \in 1..(n+1) : b[k] \in S \cup {s}
    BY <1>1, <1>2, <1>3
  <2> QED BY <2>1, <2>2
<1> HIDE DEF b
<1>7. ASSUME NEW t \in S \cup {s} PROVE \E k \in 1..(n+1) : b[k] = t
  BY <1>1, <1>2, <1>4, <1>5
<1>8. ASSUME NEW j \in 1..(n+1), NEW k \in 1..(n+1), b[j] = b[k] PROVE j = k
  BY <1>1, <1>2, <1>3, <1>8
<1> QED BY <1>6, <1>7, <1>8 DEF b, Enumerates

LEMMA AppendChain ==
    ASSUME NEW c, NEW d, NEW s, NULL \notin Cached(c), s \notin Cached(c),
           NEW n \in Nat, NEW at, Chain(c, n, at),
           Cached(d) = Cached(c) \cup {s},
           d.head = (IF c.tail = NULL THEN s ELSE c.head), d.tail = s,
           PreviousOf(d, s) = c.tail, NextOf(d, s) = NULL,
           \A t \in Cached(c) : PreviousOf(d, t) = PreviousOf(c, t),
           \A t \in Cached(c) : NextOf(d, t) = IF t = c.tail THEN s ELSE NextOf(c, t)
    PROVE  Chain(d, n + 1, Appended(n, at, s))
<1> DEFINE b == Appended(n, at, s)
<1>1. /\ \A k \in 1..n : at[k] \in Cached(c)
      /\ \A j, k \in 1..n : at[j] = at[k] => j = k
      /\ c.head = IF n = 0 THEN NULL ELSE at[1]
      /\ c.tail = IF n = 0 THEN NULL ELSE at[n]
      /\ \A k \in 1..n : /\ PreviousOf(c, at[k]) = IF k = 1 THEN NULL ELSE at[k-1]
                         /\ NextOf(c, at[k]) = IF k = n THEN NULL ELSE at[k+1]
  BY DEF Chain, Enumerates, Linked
<1>2. Enumerates(Cached(d), n + 1, b)
  BY AppendedEnumerates DEF Chain
<1>3. \A k \in 1..(n+1) : b[k] = IF k = n + 1 THEN s ELSE at[k]
  BY DEF Appended
<1> HIDE DEF b
<1>4. d.head = b[1] /\ d.tail = b[n+1]
  <2>1. 1 \in 1..(n+1) /\ n + 1 \in 1..(n+1) /\ (n = 0 <=> 1 = n + 1) /\ (n # 0 => 1 \in 1..n /\ n \in 1..n)
    OBVIOUS
  <2>2. c.tail = NULL <=> n = 0
    BY <1>1, <2>1
  <2> QED BY <1>1, <1>3, <2>1, <2>2
<1>5. ASSUME NEW k \in 1..(n+1)
      PROVE  /\ PreviousOf(d, b[k]) = IF k = 1 THEN NULL ELSE b[k-1]
             /\ NextOf(d, b[k]) = IF k = n + 1 THEN NULL ELSE b[k+1]
  <2>1. CASE k = n + 1
    <3>1. b[k] = s
      BY <1>3, <2>1
    <3>2. k # 1 => k - 1 \in 1..(n+1) /\ k - 1 # n + 1 /\ k - 1 = n /\ n # 0
      BY <2>1
    <3>3. k = 1 => n = 0
      BY <2>1
    <3> QED BY <1>1, <1>3, <2>1, <3>1, <3>2, <3>3
  <2>2. CASE k # n + 1
    <3>1. k \in 1..n /\ n # 0 /\ n \in 1..n
      BY <2>2
    <3>2. b[k] = at[k]
      BY <1>3, <2>2
    <3>3. k # 1 => b[k-1] = at[k-1]
      <4>1. k # 1 => k - 1 \in 1..(n+1) /\ k - 1 # n + 1
        BY <2>2
      <4> QED BY <1>3, <4>1
    <3>4. b[k+1] = IF k = n THEN s ELSE at[k+1]
      <4>1. k + 1 \in 1..(n+1) /\ (k + 1 = n + 1 <=> k = n)
        BY <3>1
      <4> QED BY <1>3, <4>1
    <3>5. at[k] = c.tail <=> k = n
      BY <1>1, <3>1
    <3>6. PreviousOf(d, at[k]) = PreviousOf(c, at[k])
      BY <1>1, <3>1
    <3>7. NextOf(d, at[k]) = IF k = n THEN s ELSE NextOf(c, at[k])
      BY <1>1, <3>1, <3>5
    <3> QED BY <1>1, <2>2, <3>1, <3>2, <3>3, <3>4, <3>6, <3>7
  <2> QED BY <2>1, <2>2
<1>6. n + 1 # 0
  OBVIOUS
<1> QED BY <1>2, <1>4, <1>5, <1>6 DEF b, Chain, Linked

LEMMA ChainIsChained ==
    ASSUME NEW c, NEW n \in Nat, NEW at, Chain(c, n, at)
    PROVE  Chained(c)
  BY DEF Chained, Chain, Enumerates

(* What a chained cache gives its users.                                   *)
LEMMA ChainedFacts ==
    ASSUME NEW c, NULL \notin Cached(c), Chained(c)
    PROVE  \E n, at :
             /\ n \in Nat
             /\ Chain(c, n, at)
             /\ Cardinality(Cached(c)) = n
             /\ \A s \in Cached(c) : \E k \in 1..n : at[k] = s
             /\ n # 0 => c.head = at[1] /\ c.tail = at[n]
                         /\ c.head \in Cached(c) /\ c.tail \in Cached(c)
             /\ n = 0 => c.head = NULL /\ c.tail = NULL
<1>1. PICK n \in Nat : \E at \in [1..n -> Cached(c)] : Chain(c, n, at)
  BY DEF Chained
<1>2. PICK at \in [1..n -> Cached(c)] : Chain(c, n, at)
  BY <1>1
<1>3. Cardinality(Cached(c)) = n
  BY <1>2, EnumerationCounts DEF Chain
<1>4. \A s \in Cached(c) : \E k \in 1..n : at[k] = s
  BY <1>2 DEF Chain, Enumerates
<1>5. n # 0 => 1 \in 1..n /\ n \in 1..n
  OBVIOUS
<1>6. /\ c.head = IF n = 0 THEN NULL ELSE at[1]
      /\ c.tail = IF n = 0 THEN NULL ELSE at[n]
  BY <1>2 DEF Chain, Linked
<1> QED BY <1>2, <1>3, <1>4, <1>5, <1>6

LEMMA EmptyIsChained == Chained(EmptyCache) /\ Cached(EmptyCache) = {} /\ Cardinality(Cached(EmptyCache)) = 0
<1> DEFINE at == [k \in 1..0 |-> NULL]
<1>1. Cached(EmptyCache) = {}
  BY DEF Cached, EmptyCache
<1>2. 1..0 = {}
  OBVIOUS
<1>3. EmptyCache.head = NULL /\ EmptyCache.tail = NULL
  BY DEF EmptyCache
<1>4. Chain(EmptyCache, 0, at)
  BY <1>1, <1>2, <1>3 DEF Chain, Enumerates, Linked
<1>5. Chained(EmptyCache)
  BY <1>4, ChainIsChained
<1> QED BY <1>1, <1>5, FS_EmptySet

LEMMA RemoveChained ==
    ASSUME NEW c, NEW R, NEW s, IsCache(c, R), NULL \notin Cached(c), Chained(c)
    PROVE  /\ Chained(RemoveCached(c, s))
           /\ Cardinality(Cached(RemoveCached(c, s))) =
                 IF s \in Cached(c) THEN Cardinality(Cached(c)) - 1 ELSE Cardinality(Cached(c))
<1>1. CASE s \notin Cached(c)
  BY <1>1 DEF RemoveCached
<1>2. CASE s \in Cached(c)
  <2>1. PICK n, at : /\ n \in Nat
                     /\ Chain(c, n, at)
                     /\ Cardinality(Cached(c)) = n
                     /\ \A t \in Cached(c) : \E k \in 1..n : at[k] = t
    BY ChainedFacts
  <2> n \in Nat
    BY <2>1
  <2>2. PICK p \in 1..n : at[p] = s
    BY <1>2, <2>1
  <2>3. Chain(RemoveCached(c, s), n - 1, Closed(n, at, p)) /\ n - 1 \in Nat
    BY <2>1, <2>2, RemoveChain
  <2>4. Chained(RemoveCached(c, s))
    BY <2>3, ChainIsChained
  <2>5. Cardinality(Cached(RemoveCached(c, s))) = n - 1
    BY <2>3, EnumerationCounts DEF Chain
  <2> QED BY <1>2, <2>1, <2>4, <2>5
<1> QED BY <1>1, <1>2

(* touch_lru moves its state to the tail of the chain.                     *)
LEMMA TouchChain ==
    ASSUME NEW c, NEW R, IsCache(c, R), NULL \notin Cached(c),
           NEW n \in Nat, NEW at, Chain(c, n, at), NEW p \in 1..n, p # n
    PROVE  Chain(TouchLru(c, at[p]), n, Appended(n - 1, Closed(n, at, p), at[p]))
<1> DEFINE s == at[p]
           r == RemoveCached(c, s)
           d == TouchLru(c, s)
<1>1. /\ \A k \in 1..n : at[k] \in Cached(c)
      /\ \A j, k \in 1..n : at[j] = at[k] => j = k
      /\ c.head = at[1] /\ c.tail = at[n]
  BY DEF Chain, Enumerates, Linked
<1>2. 1 \in 1..n /\ n \in 1..n /\ (p # 1 => p - 1 \in 1..n) /\ p + 1 \in 1..n
  OBVIOUS
<1>3. s \in Cached(c) /\ c.tail # s /\ c.tail \in Cached(c) /\ c.tail # NULL
  BY <1>1, <1>2
<1>4. Chain(r, n - 1, Closed(n, at, p)) /\ n - 1 \in Nat
  BY RemoveChain
<1>5. /\ PreviousOf(c, s) = IF p = 1 THEN NULL ELSE at[p-1]
      /\ NextOf(c, s) = IF p = n THEN NULL ELSE at[p+1]
  BY DEF Chain, Linked
<1>6. PreviousOf(c, s) = NULL => c.head = s
  BY <1>1, <1>2, <1>5
<1>7. NextOf(c, s) # NULL
  BY <1>1, <1>2, <1>5
<1> HIDE DEF s
<1>8. Cached(r) = Cached(c) \ {s} /\ Cached(d) = Cached(c)
  BY RemoveCachedFacts, TouchLruFacts
<1>9. r.tail = c.tail /\ c.tail \in Cached(r)
  <2>1. r.tail = c.tail
    BY <1>3, <1>7, RemoveCachedEffect
  <2> QED BY <1>3, <1>8, <2>1
<1>10. /\ d.head = r.head /\ d.tail = s
       /\ NextOf(d, s) = NULL /\ PreviousOf(d, s) = c.tail
       /\ \A t \in Cached(c) \ {s} :
             /\ NextOf(d, t) = IF t = c.tail THEN s ELSE NextOf(r, t)
             /\ PreviousOf(d, t) = PreviousOf(r, t)
  BY <1>3, <1>6, TouchLruEffect
<1> HIDE DEF r, d
<1>11. Cached(d) = Cached(r) \cup {s} /\ s \notin Cached(r) /\ NULL \notin Cached(r)
  BY <1>3, <1>8
<1>12. Chain(d, (n - 1) + 1, Appended(n - 1, Closed(n, at, p), s))
  <2>1. d.head = IF r.tail = NULL THEN s ELSE r.head
    BY <1>3, <1>9, <1>10
  <2>2. \A t \in Cached(r) : PreviousOf(d, t) = PreviousOf(r, t)
    BY <1>8, <1>10
  <2>3. \A t \in Cached(r) : NextOf(d, t) = IF t = r.tail THEN s ELSE NextOf(r, t)
    BY <1>8, <1>9, <1>10
  <2>4. d.tail = s /\ PreviousOf(d, s) = r.tail /\ NextOf(d, s) = NULL
    BY <1>9, <1>10
  <2> QED BY <1>4, <1>11, <2>1, <2>2, <2>3, <2>4, AppendChain
<1>13. (n - 1) + 1 = n
  OBVIOUS
<1> QED BY <1>12, <1>13 DEF d, s

LEMMA TouchChained ==
    ASSUME NEW c, NEW R, NEW s, IsCache(c, R), NULL \notin Cached(c), Chained(c)
    PROVE  Chained(TouchLru(c, s)) /\ Cached(TouchLru(c, s)) = Cached(c)
<1>1. Cached(TouchLru(c, s)) = Cached(c)
  BY TouchLruFacts
<1>2. CASE c.tail = s \/ s \notin Cached(c)
  BY <1>2 DEF TouchLru
<1>3. CASE c.tail # s /\ s \in Cached(c)
  <2>1. PICK n, at : n \in Nat /\ Chain(c, n, at)
    BY ChainedFacts
  <2> n \in Nat
    BY <2>1
  <2>2. PICK p \in 1..n : at[p] = s
    BY <1>3, <2>1 DEF Chain, Enumerates
  <2>3. p # n
    BY <1>3, <2>1, <2>2 DEF Chain, Linked
  <2>4. Chain(TouchLru(c, s), n, Appended(n - 1, Closed(n, at, p), s))
    BY <2>1, <2>2, <2>3, TouchChain
  <2> QED BY <1>1, <2>4, ChainIsChained
<1> QED BY <1>2, <1>3

(* The Lru arm of insert_completed chains the new entry last and keeps the *)
(* bound.                                                                  *)
LEMMA AddRecentChain ==
    ASSUME NEW base, NEW R, NEW s \in States, NEW record \in R, IsCache(base, R),
           NULL \notin Cached(base), s \notin Cached(base),
           NEW n \in Nat, NEW at, Chain(base, n, at), NEW d,
           d = SetTail(IF base.tail # NULL
                       THEN SetNext([base EXCEPT !.entries = With(base.entries, s, Entry(record, base.tail, NULL))],
                                    base.tail, s)
                       ELSE SetHead([base EXCEPT !.entries = With(base.entries, s, Entry(record, base.tail, NULL))], s),
                       s)
    PROVE  Chain(d, n + 1, Appended(n, at, s))
<1> DEFINE new == Entry(record, base.tail, NULL)
           own == [base EXCEPT !.entries = With(base.entries, s, new)]
           linked == IF base.tail # NULL THEN SetNext(own, base.tail, s) ELSE SetHead(own, s)
<1>1. Inserted(base, own, s, record, R)
  BY AddEntryFacts DEF KeepsRecords
<1>2. IsCache(own, R)
  BY <1>1 DEF Inserted
<1>3. own = [entries |-> With(base.entries, s, new), head |-> base.head, tail |-> base.tail]
  BY DEF IsCache
<1>4. new.next = NULL /\ new.previous = base.tail
  BY DEF Entry
<1> HIDE DEF new
<1>5. /\ Cached(own) = Cached(base) \cup {s} /\ own.head = base.head /\ own.tail = base.tail
      /\ own.entries[s] = new
      /\ \A t \in Cached(base) : own.entries[t] = base.entries[t]
  BY <1>3 DEF Cached, With
<1>6. /\ NextOf(own, s) = NULL /\ PreviousOf(own, s) = base.tail
      /\ \A t \in Cached(base) : NextOf(own, t) = NextOf(base, t)
      /\ \A t \in Cached(base) : PreviousOf(own, t) = PreviousOf(base, t)
  BY <1>4, <1>5 DEF NextOf, PreviousOf
<1>7. d = SetTail(linked, s)
  BY DEF linked, own, new
<1> HIDE DEF own
<1>8. /\ n # 0 => base.tail \in Cached(base)
      /\ n = 0 => base.tail = NULL
  <2>1. n # 0 => n \in 1..n
    OBVIOUS
  <2> QED BY <2>1 DEF Chain, Enumerates, Linked
<1>9. /\ IsCache(linked, R) /\ Cached(linked) = Cached(own)
      /\ linked.head = IF base.tail = NULL THEN s ELSE base.head
  <2>1. CASE base.tail # NULL
    <3>1. linked = SetNext(own, base.tail, s)
      BY <2>1
    <3>2. IsCache(linked, R) /\ Cached(linked) = Cached(own)
      BY <1>2, <3>1, SetLinkFacts
    <3>3. linked.head = own.head
      BY <1>2, <3>1, SetNextEffect
    <3> QED BY <1>5, <2>1, <3>2, <3>3
  <2>2. CASE base.tail = NULL
    BY <1>2, <1>5, <2>2, SetEndFacts, SetHeadEffect DEF Cached
  <2> QED BY <2>1, <2>2
<1>10. base.tail # NULL => base.tail # s
  BY <1>8
<1>11. /\ \A t \in Cached(base) : NextOf(linked, t) = IF t = base.tail THEN s ELSE NextOf(base, t)
       /\ NextOf(linked, s) = NULL
  <2>1. CASE base.tail # NULL
    <3>1. linked = SetNext(own, base.tail, s)
      BY <2>1
    <3>2. \A t \in Cached(own) : NextOf(linked, t) = IF t = base.tail THEN s ELSE NextOf(own, t)
      BY <1>2, <3>1, SetNextEffect
    <3> QED BY <1>5, <1>6, <1>10, <2>1, <3>2
  <2>2. CASE base.tail = NULL
    <3>1. linked = SetHead(own, s)
      BY <2>2
    <3>2. \A t : NextOf(linked, t) = NextOf(own, t)
      BY <1>2, <3>1, SetHeadEffect
    <3>3. \A t \in Cached(base) : t # base.tail
      BY <2>2
    <3> QED BY <1>6, <3>2, <3>3
  <2> QED BY <2>1, <2>2
<1>12. /\ \A t \in Cached(base) : PreviousOf(linked, t) = PreviousOf(base, t)
       /\ PreviousOf(linked, s) = base.tail
  <2>1. CASE base.tail # NULL
    <3>1. linked = SetNext(own, base.tail, s)
      BY <2>1
    <3>2. \A t \in Cached(own) : PreviousOf(linked, t) = PreviousOf(own, t)
      BY <1>2, <3>1, SetNextEffect
    <3> QED BY <1>5, <1>6, <3>2
  <2>2. CASE base.tail = NULL
    <3>1. linked = SetHead(own, s)
      BY <2>2
    <3>2. \A t : PreviousOf(linked, t) = PreviousOf(own, t)
      BY <1>2, <3>1, SetHeadEffect
    <3> QED BY <1>6, <3>2
  <2> QED BY <2>1, <2>2
<1> HIDE DEF linked
<1>13. d.head = linked.head /\ d.tail = s
  BY <1>7, <1>9, SetTailEffect
<1>14. \A t : NextOf(d, t) = NextOf(linked, t)
  BY <1>7, <1>9, SetTailEffect
<1>15. \A t : PreviousOf(d, t) = PreviousOf(linked, t)
  BY <1>7, <1>9, SetTailEffect
<1>16. Cached(d) = Cached(base) \cup {s}
  BY <1>5, <1>7, <1>9, SetEndFacts DEF Cached
<1>17. Chain(d, n + 1, Appended(n, at, s))
  <2>1. \A t \in Cached(base) : PreviousOf(d, t) = PreviousOf(base, t)
    BY <1>12, <1>15
  <2>2. \A t \in Cached(base) : NextOf(d, t) = IF t = base.tail THEN s ELSE NextOf(base, t)
    BY <1>11, <1>14
  <2>3. NextOf(d, s) = NULL /\ PreviousOf(d, s) = base.tail
    BY <1>11, <1>12, <1>14, <1>15
  <2>4. d.head = IF base.tail = NULL THEN s ELSE base.head
    BY <1>9, <1>13
  <2> QED BY <1>8, <1>13, <1>16, <2>1, <2>2, <2>3, <2>4, AppendChain
<1> QED BY <1>17

(* insert_completed of a state that is not cached: room is made at the     *)
(* head.                                                                   *)
Room(n, at, max) == IF n = max THEN Closed(n, at, 1) ELSE at
RoomSize(n, max) == IF n = max THEN n - 1 ELSE n

LEMMA InsertRecentChain ==
    ASSUME NEW c, NEW R, NEW s \in States, NEW record \in R, IsCache(c, R),
           NULL \notin Cached(c), s \notin Cached(c), NEW max \in Nat, max # 0,
           NEW n \in Nat, n <= max, NEW at, Chain(c, n, at)
    PROVE  /\ RoomSize(n, max) \in Nat
           /\ Chain(InsertRecent(c, s, record, max), RoomSize(n, max) + 1,
                    Appended(RoomSize(n, max), Room(n, at, max), s))
<1> DEFINE base == IF Cardinality(Cached(c)) >= max THEN EvictLru(c) ELSE c
           d    == InsertRecent(c, s, record, max)
           m    == RoomSize(n, max)
           kept == Room(n, at, max)
<1>1. Cardinality(Cached(c)) = n
  BY EnumerationCounts DEF Chain
<1>2. RemoveCached(c, s) = c
  BY DEF RemoveCached
<1>3. /\ m \in Nat /\ Chain(base, m, kept)
      /\ IsCache(base, R) /\ Cached(base) \subseteq Cached(c)
  <2>1. CASE n = max
    <3>1. 1 \in 1..n /\ n >= max /\ n - 1 \in Nat
      BY <2>1
    <3>2. c.head = at[1] /\ at[1] \in Cached(c)
      BY <3>1 DEF Chain, Enumerates, Linked
    <3>3. base = RemoveCached(c, at[1])
      BY <1>1, <3>1, <3>2 DEF EvictLru
    <3>4. Chain(RemoveCached(c, at[1]), n - 1, Closed(n, at, 1))
      BY <3>1, RemoveChain
    <3>5. m = n - 1 /\ kept = Closed(n, at, 1)
      BY <2>1 DEF RoomSize, Room
    <3> HIDE DEF base, m, kept
    <3> QED BY <3>1, <3>3, <3>4, <3>5, RemoveCachedFacts
  <2>2. CASE n # max
    <3>1. ~(n >= max)
      BY <2>2
    <3>2. base = c /\ m = n /\ kept = at
      BY <1>1, <2>2, <3>1 DEF RoomSize, Room
    <3> HIDE DEF base, m, kept
    <3> QED BY <3>2
  <2> QED BY <2>1, <2>2
<1>4. d = SetTail(IF base.tail # NULL
                  THEN SetNext([base EXCEPT !.entries = With(base.entries, s, Entry(record, base.tail, NULL))],
                               base.tail, s)
                  ELSE SetHead([base EXCEPT !.entries = With(base.entries, s, Entry(record, base.tail, NULL))], s),
                  s)
  BY <1>2 DEF InsertRecent, d, base
<1> HIDE DEF base, d, m, kept
<1>5. NULL \notin Cached(base) /\ s \notin Cached(base)
  BY <1>3
<1>6. Chain(d, m + 1, Appended(m, kept, s))
  BY <1>3, <1>4, <1>5, AddRecentChain
<1> QED BY <1>3, <1>6 DEF d, m, kept

LEMMA InsertRecentChained ==
    ASSUME NEW c, NEW R, NEW s \in States, NEW record \in R, IsCache(c, R),
           NULL \notin Cached(c), Chained(c), NEW max \in Nat, max # 0,
           Cardinality(Cached(c)) <= max
    PROVE  /\ Chained(InsertRecent(c, s, record, max))
           /\ Cardinality(Cached(InsertRecent(c, s, record, max))) <= max
<1> DEFINE absent == RemoveCached(c, s)
           base   == IF Cardinality(Cached(absent)) >= max THEN EvictLru(absent) ELSE absent
           d      == InsertRecent(c, s, record, max)
<1>1. /\ IsCache(absent, R) /\ Cached(absent) = Cached(c) \ {s}
      /\ Chained(absent)
  BY RemoveCachedFacts, RemoveChained
<1>2. Cardinality(Cached(c)) \in Nat
  BY ChainedFacts
<1>3. Cardinality(Cached(absent)) \in Nat /\ Cardinality(Cached(absent)) <= max
  <2>1. Cardinality(Cached(absent)) \in Nat
    BY <1>1, ChainedFacts
  <2>2. Cardinality(Cached(absent)) = IF s \in Cached(c) THEN Cardinality(Cached(c)) - 1
                                      ELSE Cardinality(Cached(c))
    BY RemoveChained
  <2> QED BY <1>2, <2>1, <2>2
<1>4. NULL \notin Cached(absent) /\ s \notin Cached(absent)
  BY <1>1
<1> HIDE DEF absent
<1>5. ASSUME Cardinality(Cached(absent)) >= max
      PROVE  /\ IsCache(EvictLru(absent), R) /\ Chained(EvictLru(absent))
             /\ Cached(EvictLru(absent)) \subseteq Cached(absent)
             /\ Cardinality(Cached(EvictLru(absent))) = Cardinality(Cached(absent)) - 1
  <2>1. absent.head \in Cached(absent)
    <3>1. Cardinality(Cached(absent)) # 0
      BY <1>3, <1>5
    <3> QED BY <1>1, <1>4, <3>1, ChainedFacts
  <2>2. EvictLru(absent) = RemoveCached(absent, absent.head)
    BY <1>4, <2>1 DEF EvictLru
  <2>3. IsCache(EvictLru(absent), R) /\ Cached(EvictLru(absent)) \subseteq Cached(absent)
    BY <1>1, <2>2, RemoveCachedFacts
  <2> QED BY <1>1, <1>4, <2>1, <2>2, <2>3, RemoveChained
<1>6. /\ IsCache(base, R) /\ Chained(base) /\ Cached(base) \subseteq Cached(absent)
      /\ Cardinality(Cached(base)) \in Nat /\ Cardinality(Cached(base)) + 1 <= max
  <2>1. CASE Cardinality(Cached(absent)) >= max
    <3>1. base = EvictLru(absent)
      BY <2>1
    <3> HIDE DEF base
    <3>2. Cardinality(Cached(base)) = Cardinality(Cached(absent)) - 1
      BY <1>5, <2>1, <3>1
    <3>3. IsCache(base, R) /\ Chained(base) /\ Cached(base) \subseteq Cached(absent)
      BY <1>5, <2>1, <3>1
    <3>4. Cardinality(Cached(base)) \in Nat /\ Cardinality(Cached(base)) + 1 <= max
      BY <1>3, <2>1, <3>2
    <3> QED BY <3>3, <3>4
  <2>2. CASE ~(Cardinality(Cached(absent)) >= max)
    <3>1. base = absent
      BY <2>2
    <3> HIDE DEF base
    <3>2. Cardinality(Cached(absent)) + 1 <= max
      BY <1>3, <2>2
    <3> QED BY <1>1, <1>3, <3>1, <3>2
  <2> QED BY <2>1, <2>2
<1>7. d = SetTail(IF base.tail # NULL
                  THEN SetNext([base EXCEPT !.entries = With(base.entries, s, Entry(record, base.tail, NULL))],
                               base.tail, s)
                  ELSE SetHead([base EXCEPT !.entries = With(base.entries, s, Entry(record, base.tail, NULL))], s),
                  s)
  BY DEF InsertRecent, d, base, absent
<1> HIDE DEF base, d
<1>8. Chained(d) /\ Cardinality(Cached(d)) = Cardinality(Cached(base)) + 1
  <2>1. NULL \notin Cached(base) /\ s \notin Cached(base)
    BY <1>4, <1>6
  <2>2. PICK n, at : n \in Nat /\ Chain(base, n, at)
    BY <1>6, <2>1, ChainedFacts
  <2> n \in Nat
    BY <2>2
  <2>3. Chain(d, n + 1, Appended(n, at, s))
    BY <1>6, <1>7, <2>1, <2>2, AddRecentChain
  <2>4. n + 1 \in Nat
    OBVIOUS
  <2>5. Cardinality(Cached(base)) = n /\ Cardinality(Cached(d)) = n + 1
    BY <2>2, <2>3, <2>4, EnumerationCounts DEF Chain
  <2> QED BY <2>3, <2>4, <2>5, ChainIsChained
<1> QED BY <1>6, <1>8 DEF d

-----------------------------------------------------------------------------
(* rebuild_lru: the chain of the ids in increasing order.                  *)

Increasing(n, at) == \A j, k \in 1..n : j < k => at[j] < at[k]

HasIncreasing(S) == \E n, at : n \in Nat /\ Enumerates(S, n, at) /\ Increasing(n, at)

(* One more state before the head.                                         *)
Preceded(n, at, s) == [k \in 1..(n+1) |-> IF k = 1 THEN s ELSE at[k-1]]

LEMMA PrecededEnumerates ==
    ASSUME NEW S, S \subseteq Nat, NEW n \in Nat, NEW at, Enumerates(S, n, at), Increasing(n, at),
           NEW s \in Nat, \A t \in S : s < t
    PROVE  /\ Enumerates(S \cup {s}, n + 1, Preceded(n, at, s))
           /\ Increasing(n + 1, Preceded(n, at, s))
<1> DEFINE b == Preceded(n, at, s)
<1>1. /\ \A k \in 1..n : at[k] \in S
      /\ \A t \in S : \E k \in 1..n : at[k] = t
      /\ \A j, k \in 1..n : j < k => at[j] < at[k]
  BY DEF Enumerates, Increasing
<1>2. \A k \in 1..(n+1) : b[k] = IF k = 1 THEN s ELSE at[k-1]
  BY DEF Preceded
<1>3. \A k \in 1..(n+1) : k # 1 => k - 1 \in 1..n
  OBVIOUS
<1>4. \A k \in 1..(n+1) : b[k] \in S \cup {s}
  BY <1>1, <1>2, <1>3
<1>5. b \in [1..(n+1) -> S \cup {s}]
  <2>1. b = [k \in 1..(n+1) |-> b[k]]
    BY DEF Preceded
  <2> HIDE DEF b
  <2> QED BY <1>4, <2>1
<1> HIDE DEF b
<1>6. ASSUME NEW t \in S \cup {s} PROVE \E k \in 1..(n+1) : b[k] = t
  <2>1. CASE t = s
    <3>1. 1 \in 1..(n+1)
      OBVIOUS
    <3> QED BY <1>2, <2>1, <3>1
  <2>2. CASE t \in S
    <3>1. PICK k \in 1..n : at[k] = t
      BY <1>1, <2>2
    <3>2. k + 1 \in 1..(n+1) /\ k + 1 # 1 /\ (k + 1) - 1 = k
      OBVIOUS
    <3> QED BY <1>2, <3>1, <3>2
  <2> QED BY <2>1, <2>2
<1>7. ASSUME NEW j \in 1..(n+1), NEW k \in 1..(n+1), j < k PROVE b[j] < b[k]
  <2>1. k # 1 /\ k - 1 \in 1..n /\ b[k] = at[k-1] /\ at[k-1] \in S
    BY <1>1, <1>2, <1>3, <1>7
  <2>2. CASE j = 1
    BY <1>2, <2>1, <2>2
  <2>3. CASE j # 1
    <3>1. j - 1 \in 1..n /\ j - 1 < k - 1 /\ b[j] = at[j-1]
      BY <1>2, <1>3, <1>7, <2>3
    <3> QED BY <1>1, <2>1, <3>1
  <2> QED BY <2>2, <2>3
<1>8. ASSUME NEW j \in 1..(n+1), NEW k \in 1..(n+1), b[j] = b[k] PROVE j = k
  <2>1. b[j] \in Nat /\ b[k] \in Nat
    BY <1>4
  <2>2. ~ (b[j] < b[k]) /\ ~ (b[k] < b[j])
    BY <1>8, <2>1
  <2>3. ~ (j < k) /\ ~ (k < j)
    BY <1>7, <2>2
  <2> QED BY <2>3
<1> QED BY <1>5, <1>6, <1>7, <1>8 DEF b, Enumerates, Increasing

(* Every finite set of numbers has an increasing enumeration: otherwise    *)
(* take a smallest one that has none, and remove its least member.         *)
LEMMA SortedEnumeration ==
    ASSUME NEW Base, Base \subseteq Nat, IsFiniteSet(Base)
    PROVE  HasIncreasing(Base)
<1> DEFINE Bad == {S \in SUBSET Base : ~ HasIncreasing(S)}
           sizes == {Cardinality(S) : S \in Bad}
<1>1. SUFFICES ASSUME ~ HasIncreasing(Base) PROVE FALSE
  OBVIOUS
<1>2. \A S \in SUBSET Base : IsFiniteSet(S) /\ Cardinality(S) \in Nat /\ S \subseteq Nat
  BY FS_Subset, FS_CardinalityType
<1>3. Base \in Bad /\ sizes \subseteq Nat
  BY <1>1, <1>2
<1>4. sizes # {}
  BY <1>3
<1> HIDE DEF sizes
<1>5. PICK m \in sizes : \A k \in sizes : m <= k
  BY <1>3, <1>4, LeastNumber
<1>6. PICK S \in Bad : Cardinality(S) = m
  BY <1>5 DEF sizes
<1>7. S \subseteq Base /\ ~ HasIncreasing(S) /\ S \subseteq Nat /\ IsFiniteSet(S) /\ m \in Nat
  BY <1>2, <1>3, <1>5, <1>6
<1>8. CASE S = {}
  <2> DEFINE at == [k \in 1..0 |-> 0]
  <2>1. 1..0 = {}
    OBVIOUS
  <2>2. Enumerates({}, 0, at) /\ Increasing(0, at)
    BY <2>1 DEF Enumerates, Increasing
  <2>3. 0 \in Nat
    OBVIOUS
  <2> HIDE DEF at
  <2> QED BY <1>7, <1>8, <2>2, <2>3 DEF HasIncreasing
<1>9. CASE S # {}
  <2>1. PICK s \in S : \A t \in S : s <= t
    BY <1>7, <1>9, LeastNumber
  <2> DEFINE T == S \ {s}
  <2>2. T \in SUBSET Base /\ Cardinality(T) = m - 1
    BY <1>6, <1>7, FS_RemoveElement
  <2>3. T \notin Bad
    <3>1. m - 1 \notin sizes
      BY <1>5, <1>7, <1>3
    <3> QED BY <2>2, <3>1 DEF sizes
  <2>4. HasIncreasing(T)
    BY <2>2, <2>3
  <2>5. PICK n, at : n \in Nat /\ Enumerates(T, n, at) /\ Increasing(n, at)
    BY <2>4 DEF HasIncreasing
  <2> n \in Nat
    BY <2>5
  <2>6. T \subseteq Nat /\ s \in Nat /\ \A t \in T : s < t
    BY <1>7, <2>1
  <2>7. S = T \cup {s}
    OBVIOUS
  <2> HIDE DEF T
  <2>8. /\ Enumerates(S, n + 1, Preceded(n, at, s))
        /\ Increasing(n + 1, Preceded(n, at, s))
    BY <2>5, <2>6, <2>7, PrecededEnumerates
  <2>9. n + 1 \in Nat
    OBVIOUS
  <2>10. HasIncreasing(S)
    BY <2>8, <2>9 DEF HasIncreasing
  <2> QED BY <1>7, <2>10
<1> QED BY <1>8, <1>9

(* The ends and the neighbours that an increasing enumeration gives.       *)
Sorted(S, n, at) ==
    /\ Least(S) = IF n = 0 THEN NULL ELSE at[1]
    /\ Greatest(S) = IF n = 0 THEN NULL ELSE at[n]
    /\ \A k \in 1..n : /\ Greatest(Before(S, at[k])) = IF k = 1 THEN NULL ELSE at[k-1]
                       /\ Least(After(S, at[k])) = IF k = n THEN NULL ELSE at[k+1]

LEMMA GreatestIs ==
    ASSUME NEW S, S \subseteq Nat, NEW s \in S, \A t \in S : t <= s
    PROVE  Greatest(S) = s
<1>1. S # {} /\ After(S, s) = {}
  <2>1. \A t \in S : ~ (t > s)
    OBVIOUS
  <2> QED BY <2>1 DEF After
<1>2. \A t \in S : After(S, t) = {} => t = s
  BY DEF After
<1>3. \A t \in S : After(S, t) = {} <=> t = s
  BY <1>1, <1>2
<1> QED BY <1>1, <1>3 DEF Greatest

LEMMA LeastIs ==
    ASSUME NEW S, S \subseteq Nat, NEW s \in S, \A t \in S : s <= t
    PROVE  Least(S) = s
<1>1. S # {} /\ Before(S, s) = {}
  <2>1. \A t \in S : ~ (t < s)
    OBVIOUS
  <2> QED BY <2>1 DEF Before
<1>2. \A t \in S : Before(S, t) = {} => t = s
  BY DEF Before
<1>3. \A t \in S : Before(S, t) = {} <=> t = s
  BY <1>1, <1>2
<1> QED BY <1>1, <1>3 DEF Least

LEMMA IncreasingNeighbours ==
    ASSUME NEW S, S \subseteq Nat, NEW n \in Nat, NEW at, Enumerates(S, n, at), Increasing(n, at)
    PROVE  Sorted(S, n, at)
<1>1. /\ \A k \in 1..n : at[k] \in S /\ at[k] \in Nat
      /\ \A t \in S : \E k \in 1..n : at[k] = t
      /\ \A j, k \in 1..n : j < k => at[j] < at[k]
  BY DEF Enumerates, Increasing
<1>2. \A j, k \in 1..n : at[j] < at[k] => j < k
  <2> TAKE j, k \in 1..n
  <2>1. CASE j = k
    BY <1>1, <2>1
  <2>2. CASE k < j
    BY <1>1, <2>2
  <2> QED BY <2>1, <2>2
<1>3. CASE n = 0
  <2>1. 1..n = {}
    BY <1>3
  <2>2. S = {}
    BY <1>1, <2>1
  <2> QED BY <1>3, <2>1, <2>2 DEF Sorted, Least, Greatest
<1>4. CASE n # 0
  <2>1. 1 \in 1..n /\ n \in 1..n
    BY <1>4
  <2>2. \A t \in S : at[1] <= t
    <3> TAKE t \in S
    <3>1. PICK k \in 1..n : at[k] = t
      BY <1>1
    <3>2. k = 1 \/ 1 < k
      OBVIOUS
    <3> QED BY <1>1, <2>1, <3>1, <3>2
  <2>3. \A t \in S : t <= at[n]
    <3> TAKE t \in S
    <3>1. PICK k \in 1..n : at[k] = t
      BY <1>1
    <3>2. k = n \/ k < n
      OBVIOUS
    <3> QED BY <1>1, <2>1, <3>1, <3>2
  <2>4. Least(S) = at[1] /\ Greatest(S) = at[n]
    BY <1>1, <2>1, <2>2, <2>3, LeastIs, GreatestIs
  <2>5. ASSUME NEW k \in 1..n
        PROVE  Greatest(Before(S, at[k])) = IF k = 1 THEN NULL ELSE at[k-1]
    <3>1. CASE k = 1
      <4>1. Before(S, at[k]) = {}
        <5>1. \A t \in S : ~ (t < at[k])
          BY <1>1, <2>2, <3>1
        <5> QED BY <5>1 DEF Before
      <4> QED BY <3>1, <4>1 DEF Greatest
    <3>2. CASE k # 1
      <4>1. k - 1 \in 1..n /\ k - 1 < k
        BY <3>2
      <4>2. at[k-1] \in Before(S, at[k])
        BY <1>1, <4>1 DEF Before
      <4>3. ASSUME NEW t \in Before(S, at[k]) PROVE t <= at[k-1]
        <5>1. PICK j \in 1..n : at[j] = t
          BY <1>1 DEF Before
        <5>2. j < k
          BY <1>2, <5>1 DEF Before
        <5>3. j = k - 1 \/ j < k - 1
          BY <5>2
        <5> QED BY <1>1, <4>1, <5>1, <5>3
      <4>4. Before(S, at[k]) \subseteq Nat
        BY DEF Before
      <4> QED BY <3>2, <4>2, <4>3, <4>4, GreatestIs
    <3> QED BY <3>1, <3>2
  <2>6. ASSUME NEW k \in 1..n
        PROVE  Least(After(S, at[k])) = IF k = n THEN NULL ELSE at[k+1]
    <3>1. CASE k = n
      <4>1. After(S, at[k]) = {}
        <5>1. \A t \in S : ~ (t > at[k])
          BY <1>1, <2>3, <3>1
        <5> QED BY <5>1 DEF After
      <4> QED BY <3>1, <4>1 DEF Least
    <3>2. CASE k # n
      <4>1. k + 1 \in 1..n /\ k < k + 1
        BY <3>2
      <4>2. at[k+1] \in After(S, at[k])
        BY <1>1, <4>1 DEF After
      <4>3. ASSUME NEW t \in After(S, at[k]) PROVE at[k+1] <= t
        <5>1. PICK j \in 1..n : at[j] = t
          BY <1>1 DEF After
        <5>2. k < j
          BY <1>2, <5>1 DEF After
        <5>3. j = k + 1 \/ k + 1 < j
          BY <5>2
        <5> QED BY <1>1, <4>1, <5>1, <5>3
      <4>4. After(S, at[k]) \subseteq Nat
        BY DEF After
      <4> QED BY <3>2, <4>2, <4>3, <4>4, LeastIs
    <3> QED BY <3>1, <3>2
  <2> QED BY <1>4, <2>4, <2>5, <2>6 DEF Sorted
<1> QED BY <1>3, <1>4

(* rebuild_lru chains what it keeps, in the order of the ids.              *)
LEMMA RebuildChain ==
    ASSUME NEW c, NEW kept, kept \subseteq Nat, NEW n \in Nat, NEW at,
           Enumerates(kept, n, at), Increasing(n, at)
    PROVE  Chain(RebuildLru(c, kept), n, at) /\ Cached(RebuildLru(c, kept)) = kept
<1> DEFINE d == RebuildLru(c, kept)
<1>1. /\ Cached(d) = kept /\ d.head = Least(kept) /\ d.tail = Greatest(kept)
      /\ \A s \in kept : d.entries[s] = Entry(c.entries[s].record, Greatest(Before(kept, s)),
                                              Least(After(kept, s)))
  BY DEF RebuildLru, Cached
<1> HIDE DEF d
<1>2. \A s \in kept : /\ PreviousOf(d, s) = Greatest(Before(kept, s))
                      /\ NextOf(d, s) = Least(After(kept, s))
  <2> TAKE s \in kept
  <2> DEFINE before == Greatest(Before(kept, s))
             after == Least(After(kept, s))
             record == c.entries[s].record
  <2>1. d.entries[s] = Entry(record, before, after)
    BY <1>1
  <2> HIDE DEF before, after, record
  <2>2. d.entries[s].previous = before /\ d.entries[s].next = after
    BY <2>1 DEF Entry
  <2> QED BY <2>2 DEF PreviousOf, NextOf, before, after
<1>3. \A k \in 1..n : at[k] \in kept
  BY DEF Enumerates
<1>4. /\ d.head = IF n = 0 THEN NULL ELSE at[1]
      /\ d.tail = IF n = 0 THEN NULL ELSE at[n]
      /\ \A k \in 1..n : /\ PreviousOf(d, at[k]) = IF k = 1 THEN NULL ELSE at[k-1]
                         /\ NextOf(d, at[k]) = IF k = n THEN NULL ELSE at[k+1]
  <2>1. Sorted(kept, n, at)
    BY IncreasingNeighbours
  <2> QED BY <1>1, <1>2, <1>3, <2>1 DEF Sorted
<1>5. Chain(d, n, at)
  BY <1>1, <1>4 DEF Chain, Linked
<1> QED BY <1>1, <1>5 DEF d

LEMMA RebuildChained ==
    ASSUME NEW c, NEW kept, kept \subseteq Nat, IsFiniteSet(kept)
    PROVE  Chained(RebuildLru(c, kept)) /\ Cached(RebuildLru(c, kept)) = kept
<1>1. PICK n, at : n \in Nat /\ Enumerates(kept, n, at) /\ Increasing(n, at)
  BY SortedEnumeration DEF HasIncreasing
<1> QED BY <1>1, RebuildChain, ChainIsChained

(* A change to Lru keeps no more than its bound.                           *)
LEMMA ReboundChained ==
    ASSUME NEW c, Cached(c) \subseteq Nat, IsFiniteSet(Cached(c)), NEW max \in Nat
    PROVE  Chained(Rebound(c, max)) /\ Cardinality(Cached(Rebound(c, max))) <= max
<1> DEFINE kept == {s \in Cached(c) : Cardinality(After(Cached(c), s)) < max}
<1>1. kept \subseteq Cached(c)
  OBVIOUS
<1>2. \A s \in kept : Cardinality(After(Cached(c), s)) < max
  OBVIOUS
<1> HIDE DEF kept
<1>3. kept \subseteq Nat /\ IsFiniteSet(kept)
  BY <1>1, FS_Subset
<1>4. Chained(RebuildLru(c, kept)) /\ Cached(RebuildLru(c, kept)) = kept
  BY <1>3, RebuildChained
<1>5. Cardinality(kept) <= max
  <2>1. CASE kept = {}
    BY <2>1, FS_EmptySet
  <2>2. CASE kept # {}
    <3>1. PICK s \in kept : \A t \in kept : s <= t
      BY <1>3, <2>2, LeastNumber
    <3>2. kept \ {s} \subseteq After(Cached(c), s)
      BY <1>1, <1>3, <3>1 DEF After
    <3>3. After(Cached(c), s) \subseteq Cached(c)
      BY DEF After
    <3>4. IsFiniteSet(After(Cached(c), s)) /\ Cardinality(After(Cached(c), s)) \in Nat
      BY <3>3, FS_Subset, FS_CardinalityType
    <3>5. Cardinality(kept \ {s}) <= Cardinality(After(Cached(c), s))
      BY <3>2, <3>4, FS_Subset
    <3>6. Cardinality(kept \ {s}) = Cardinality(kept) - 1 /\ Cardinality(kept) \in Nat
      BY <1>3, FS_RemoveElement, FS_CardinalityType
    <3>7. Cardinality(After(Cached(c), s)) < max
      BY <1>2
    <3> QED BY <3>4, <3>5, <3>6, <3>7
  <2> QED BY <2>1, <2>2
<1>6. Rebound(c, max) = RebuildLru(c, kept)
  BY DEF Rebound, kept
<1> QED BY <1>4, <1>5, <1>6

-----------------------------------------------------------------------------
(* The policies without links.                                             *)

IsUnlinked(c) ==
    /\ c.head = NULL /\ c.tail = NULL
    /\ \A s \in Cached(c) : PreviousOf(c, s) = NULL /\ NextOf(c, s) = NULL

LEMMA UnlinkedIs ==
    ASSUME NEW c, NEW R, IsCache(c, R), IsUnlinked(c)
    PROVE  c = Unlinked(c)
<1>1. \A s \in Cached(c) : c.entries[s] = Entry(c.entries[s].record, NULL, NULL)
  BY DEF IsCache, IsEntry, IsUnlinked, PreviousOf, NextOf
<1>2. c.entries = [s \in Cached(c) |-> c.entries[s]]
  BY DEF IsCache
<1>3. c.entries = [s \in Cached(c) |-> Entry(c.entries[s].record, NULL, NULL)]
  BY <1>1, <1>2
<1>4. c = [entries |-> c.entries, head |-> c.head, tail |-> c.tail]
  BY DEF IsCache
<1> QED BY <1>3, <1>4 DEF Unlinked, IsUnlinked

LEMMA UnlinkedUnlinks ==
    ASSUME NEW c
    PROVE  IsUnlinked(Unlinked(c)) /\ Cached(Unlinked(c)) = Cached(c)
<1> DEFINE d == Unlinked(c)
<1>1. /\ Cached(d) = Cached(c) /\ d.head = NULL /\ d.tail = NULL
      /\ \A s \in Cached(c) : d.entries[s] = Entry(c.entries[s].record, NULL, NULL)
  BY DEF Unlinked, Cached
<1> HIDE DEF d
<1>2. \A s \in Cached(d) : PreviousOf(d, s) = NULL /\ NextOf(d, s) = NULL
  <2> TAKE s \in Cached(d)
  <2>1. PICK r : d.entries[s] = Entry(r, NULL, NULL)
    BY <1>1
  <2> QED BY <2>1 DEF Entry, PreviousOf, NextOf
<1> QED BY <1>1, <1>2 DEF IsUnlinked, d

LEMMA RemoveUnlinked ==
    ASSUME NEW c, NEW R, NEW s, IsCache(c, R), NULL \notin Cached(c), IsUnlinked(c)
    PROVE  IsUnlinked(RemoveCached(c, s))
<1>1. CASE s \notin Cached(c)
  BY <1>1 DEF RemoveCached
<1>2. CASE s \in Cached(c)
  <2>1. c.head # s /\ c.tail # s /\ PreviousOf(c, s) = NULL /\ NextOf(c, s) = NULL
    BY <1>2 DEF IsUnlinked
  <2>2. Cached(RemoveCached(c, s)) = Cached(c) \ {s}
    BY RemoveCachedFacts
  <2>3. /\ RemoveCached(c, s).head = NULL /\ RemoveCached(c, s).tail = NULL
        /\ \A t \in Cached(c) \ {s} :
              /\ NextOf(RemoveCached(c, s), t) = NextOf(c, t)
              /\ PreviousOf(RemoveCached(c, s), t) = PreviousOf(c, t)
    BY <1>2, <2>1, RemoveCachedEffect DEF IsUnlinked
  <2> QED BY <2>2, <2>3 DEF IsUnlinked
<1> QED BY <1>1, <1>2

LEMMA InsertKeepsUnlinked ==
    ASSUME NEW c, NEW R, NEW s, NEW record, IsCache(c, R), NULL \notin Cached(c), IsUnlinked(c)
    PROVE  /\ IsUnlinked(InsertUnlinked(c, s, record))
           /\ Cached(InsertUnlinked(c, s, record)) = Cached(c) \cup {s}
<1> DEFINE base == RemoveCached(c, s)
           new == Entry(record, NULL, NULL)
           d == [base EXCEPT !.entries = With(base.entries, s, new)]
<1>1. IsUnlinked(base) /\ IsCache(base, R) /\ Cached(base) = Cached(c) \ {s}
  BY RemoveUnlinked, RemoveCachedFacts
<1>2. d = InsertUnlinked(c, s, record)
  BY DEF InsertUnlinked
<1>3. new.previous = NULL /\ new.next = NULL
  BY DEF Entry
<1> HIDE DEF base, new
<1>4. d = [entries |-> With(base.entries, s, new), head |-> base.head, tail |-> base.tail]
  BY <1>1 DEF IsCache
<1> HIDE DEF d
<1>5. /\ d.head = NULL /\ d.tail = NULL /\ Cached(d) = Cached(base) \cup {s}
      /\ \A t \in Cached(d) : d.entries[t] = IF t = s THEN new ELSE base.entries[t]
  BY <1>1, <1>4 DEF Cached, With, IsUnlinked
<1>6. IsUnlinked(d)
  BY <1>1, <1>3, <1>5 DEF IsUnlinked, PreviousOf, NextOf
<1> QED BY <1>1, <1>2, <1>5, <1>6

LEMMA EmptyIsUnlinked == IsUnlinked(EmptyCache)
  BY EmptyIsChained DEF IsUnlinked, EmptyCache

-----------------------------------------------------------------------------
(* The links of the cache under each policy.                               *)

LinksInv ==
    /\ IsFiniteSet(Cached(cache))
    /\ IF policy.kind = "Lru"
       THEN Chained(cache) /\ Cardinality(Cached(cache)) <= policy.max
       ELSE IsUnlinked(cache)

LEMMA EmptyLinks ==
    ASSUME cache = EmptyCache, policy \in Policies
    PROVE  LinksInv
<1>1. policy.kind = "Lru" => policy.max \in Nat
  BY PolicyAssumption
<1> QED BY <1>1, EmptyIsChained, EmptyIsUnlinked, FS_EmptySet DEF LinksInv

(* What a step does to the cache.                                          *)
Relinks ==
    \/ UNCHANGED <<cache, policy>>
    \/ \E s \in States : /\ cache' = IF policy.kind = "Lru" THEN TouchLru(cache, s) ELSE cache
                         /\ UNCHANGED policy
    \/ \E s : cache' = RemoveCached(cache, s) /\ UNCHANGED policy
    \/ cache' = EmptyCache /\ UNCHANGED policy
    \/ \E s \in States, record \in CompletedRecords :
          InsertCompleted(s, record) /\ UNCHANGED policy
    \/ \E p \in Policies :
          /\ policy' = p
          /\ cache' = IF ~Persistent(p) THEN EmptyCache
                      ELSE IF p.kind = "Lru" THEN Rebound(cache, p.max) ELSE Unlinked(cache)

LEMMA StepsRelink ==
    ASSUME IInv, [Next]_vars
    PROVE  Relinks
<1>1. CASE QuietStep
  <2>1. CASE \E s \in States : Hit(s)
    BY <2>1 DEF Hit, Relinks
  <2>2. CASE ~ \E s \in States : Hit(s)
    BY <1>1, <2>2 DEF QuietStep, Check, Refuse, Compute, Panic, Accept, Cancel, SourceChanges,
                      vars, store, Relinks
  <2> QED BY <2>1, <2>2
<1>2. CASE ForgettingStep
  <2>1. CASE Unwind /\ Fresh
    BY <2>1 DEF Unwind, ClearState, Relinks
  <2>2. CASE \E s \in States : Reset(s) \/ Forget(s)
    BY <2>2 DEF Reset, Forget, ClearState, Relinks
  <2>3. CASE ClearCache
    BY <2>3 DEF ClearCache, ClearAllStates, Relinks
  <2>4. CASE \E p \in Policies : SetCachePolicy(p)
    BY <2>4 DEF SetCachePolicy, Relinks
  <2> QED BY <1>2, <2>1, <2>2, <2>3, <2>4 DEF ForgettingStep
<1>3. CASE RestartingStep
  BY <1>3 DEF RestartingStep, Unwind, Reject, RefreshSnapshot, ReplaceSource, Rebind,
              ClearAllStates, Relinks
<1>4. CASE WritingStep
  <2>1. CASE Precancel \/ Begin \/ CancelWins \/ Fail
    BY <2>1 DEF Precancel, Begin, CancelWins, Fail, StoreLifecycle, Relinks
  <2>2. CASE Complete
    <3>1. outcome \in CompletedRecords
      BY <2>2 DEF Complete, IInv, CallTypes, At, Results, CompletedRecords, Records
    <3>2. state \in States
      BY <2>2 DEF Complete, IInv, CallTypes, At
    <3>3. InsertCompleted(state, outcome) /\ UNCHANGED policy
      BY <2>2 DEF Complete
    <3> QED BY <3>1, <3>2, <3>3 DEF Relinks
  <2> QED BY <1>4, <2>1, <2>2 DEF WritingStep
<1> QED BY <1>1, <1>2, <1>3, <1>4, StepCases

LEMMA LinksStep ==
    ASSUME IInv, LinksInv, Relinks
    PROVE  LinksInv'
<1> DEFINE R == CompletedRecords
           lru == policy.kind = "Lru"
<1>1. /\ IsCache(cache, R) /\ Cached(cache) \subseteq States
      /\ NULL \notin Cached(cache) /\ Cached(cache) \subseteq Nat
  BY StatesAssumption DEF IInv, StoreInv, IsCache
<1>2. /\ policy \in Policies /\ policy.max \in Nat
      /\ IsFiniteSet(Cached(cache)) /\ Cardinality(Cached(cache)) \in Nat
      /\ lru => Chained(cache) /\ Cardinality(Cached(cache)) <= policy.max
      /\ ~lru => IsUnlinked(cache)
  BY PolicyAssumption, FS_CardinalityType DEF IInv, CallTypes, LinksInv
<1> HIDE DEF R
<1>3. ASSUME UNCHANGED policy, IsFiniteSet(Cached(cache')),
             lru => Chained(cache') /\ Cardinality(Cached(cache')) <= policy.max,
             ~lru => IsUnlinked(cache')
      PROVE  LinksInv'
  BY <1>3 DEF LinksInv
<1>4. CASE UNCHANGED <<cache, policy>>
  BY <1>2, <1>3, <1>4
<1>5. ASSUME NEW s, cache' = IF lru THEN TouchLru(cache, s) ELSE cache, UNCHANGED policy
      PROVE  LinksInv'
  <2>1. lru => Chained(TouchLru(cache, s)) /\ Cached(TouchLru(cache, s)) = Cached(cache)
    BY <1>1, <1>2, TouchChained
  <2> QED BY <1>2, <1>3, <1>5, <2>1
<1>6. ASSUME NEW s, cache' = RemoveCached(cache, s), UNCHANGED policy PROVE LinksInv'
  <2>1. Cached(cache') \subseteq Cached(cache)
    BY <1>1, <1>6, RemoveCachedFacts
  <2>2. IsFiniteSet(Cached(cache')) /\ Cardinality(Cached(cache')) <= Cardinality(Cached(cache))
        /\ Cardinality(Cached(cache')) \in Nat
    BY <1>2, <2>1, FS_Subset, FS_CardinalityType
  <2>3. lru => Chained(cache')
    BY <1>1, <1>2, <1>6, RemoveChained
  <2>4. ~lru => IsUnlinked(cache')
    BY <1>1, <1>2, <1>6, RemoveUnlinked
  <2>5. lru => Cardinality(Cached(cache')) <= policy.max
    BY <1>2, <2>2
  <2> QED BY <1>3, <1>6, <2>2, <2>3, <2>4, <2>5
<1>7. CASE cache' = EmptyCache /\ UNCHANGED policy
  <2>1. 0 <= policy.max
    BY <1>2
  <2> QED BY <1>3, <1>7, <2>1, EmptyIsChained, EmptyIsUnlinked, FS_EmptySet
<1>8. ASSUME NEW s \in States, NEW record \in CompletedRecords,
             InsertCompleted(s, record), UNCHANGED policy
      PROVE  LinksInv'
  <2>0. record \in R
    BY DEF R
  <2>1. CASE ~Persistent(policy)
    BY <1>2, <1>3, <1>8, <2>1 DEF InsertCompleted
  <2>2. CASE Persistent(policy) /\ lru
    <3>1. cache' = InsertRecent(cache, s, record, policy.max) /\ policy.max # 0
      BY <1>8, <2>2 DEF InsertCompleted, Persistent
    <3>2. Chained(cache') /\ Cardinality(Cached(cache')) <= policy.max
      BY <1>1, <1>2, <2>0, <2>2, <3>1, InsertRecentChained
    <3>3. IsCache(cache', R)
      <4>1. Inserted(cache, cache', s, record, R)
        BY <1>1, <2>0, <3>1, InsertRecentFacts
      <4> QED BY <4>1 DEF Inserted
    <3>4. IsFiniteSet(Cached(cache'))
      BY <3>2, <3>3, StatesAssumption, ChainedIsCoherent DEF IsCache
    <3> QED BY <1>3, <1>8, <2>2, <3>2, <3>4
  <2>3. CASE Persistent(policy) /\ ~lru
    <3>1. cache' = InsertUnlinked(cache, s, record)
      BY <1>8, <2>3 DEF InsertCompleted
    <3>2. IsUnlinked(cache') /\ Cached(cache') = Cached(cache) \cup {s}
      BY <1>1, <1>2, <2>3, <3>1, InsertKeepsUnlinked
    <3>3. IsFiniteSet(Cached(cache'))
      BY <1>2, <3>2, FS_AddElement
    <3> QED BY <1>3, <1>8, <2>3, <3>2, <3>3
  <2> QED BY <2>1, <2>2, <2>3
<1>9. ASSUME NEW p \in Policies, policy' = p,
             cache' = IF ~Persistent(p) THEN EmptyCache
                      ELSE IF p.kind = "Lru" THEN Rebound(cache, p.max) ELSE Unlinked(cache)
      PROVE  LinksInv'
  <2>0. p.max \in Nat /\ 0 <= p.max
    BY PolicyAssumption
  <2>1. CASE ~Persistent(p)
    <3>1. cache' = EmptyCache
      BY <1>9, <2>1
    <3> QED BY <1>9, <2>0, <3>1, EmptyIsChained, EmptyIsUnlinked, FS_EmptySet DEF LinksInv
  <2>2. CASE Persistent(p) /\ p.kind = "Lru"
    <3>1. cache' = Rebound(cache, p.max)
      BY <1>9, <2>2
    <3>2. Chained(cache') /\ Cardinality(Cached(cache')) <= p.max
      BY <1>1, <1>2, <2>0, <3>1, ReboundChained
    <3>3. IsFiniteSet(Cached(cache'))
      <4>1. KeepsRecords(cache, cache')
        BY <1>1, <3>1, RebindingFacts
      <4> QED BY <1>2, <4>1, FS_Subset DEF KeepsRecords
    <3> QED BY <1>9, <2>2, <3>2, <3>3 DEF LinksInv
  <2>3. CASE Persistent(p) /\ p.kind # "Lru"
    <3>1. cache' = Unlinked(cache)
      BY <1>9, <2>3
    <3> QED BY <1>2, <1>9, <2>3, <3>1, UnlinkedUnlinks DEF LinksInv
  <2> QED BY <2>1, <2>2, <2>3
<1> QED BY <1>4, <1>5, <1>6, <1>7, <1>8, <1>9 DEF Relinks

(* Under Lru the intrusive list runs through every cached entry and its    *)
(* links agree both ways, within the bound of the policy; under another    *)
(* policy no entry is linked.  Hits, insertions with their eviction,       *)
(* removals and changes of policy all keep it.                             *)
THEOREM Links == Spec => []LinksCoherent
<1>1. Init => LinksInv
  BY EmptyLinks DEF Init
<1>2. IInv /\ LinksInv /\ [Next]_vars => LinksInv'
  BY StepsRelink, LinksStep
<1>3. IInv /\ LinksInv => LinksCoherent
  <2> SUFFICES ASSUME IInv, LinksInv PROVE LinksCoherent
    OBVIOUS
  <2>1. IsCache(cache, CompletedRecords) /\ NULL \notin Cached(cache)
    BY StatesAssumption DEF IInv, StoreInv, IsCache
  <2>2. CASE policy.kind = "Lru"
    BY <2>1, <2>2, ChainedIsCoherent DEF LinksInv, LinksCoherent
  <2>3. CASE policy.kind # "Lru"
    BY <2>1, <2>3, UnlinkedIs DEF LinksInv, LinksCoherent
  <2> QED BY <2>2, <2>3
<1> QED BY InvHolds, <1>1, <1>2, <1>3, PTL DEF Spec

-----------------------------------------------------------------------------
(* The refinement.  Enumerations are sequences.                            *)

LEMMA EnumerationIsSeq ==
    ASSUME NEW S, NEW n \in Nat, NEW at, Enumerates(S, n, at)
    PROVE  at \in Seq(S) /\ Len(at) = n
<1>1. at \in [1..n -> S]
  BY DEF Enumerates
<1>2. at \in Seq(S)
  BY <1>1, SeqDef
<1>3. Len(at) \in Nat /\ 1..Len(at) = 1..n
  BY <1>1, <1>2, LenProperties
<1>4. (n > 0 => n \in 1..Len(at)) /\ (Len(at) > 0 => Len(at) \in 1..n)
  BY <1>3
<1> QED BY <1>2, <1>3, <1>4

LEMMA AppendedIsAppend ==
    ASSUME NEW S, NEW n \in Nat, NEW at, Enumerates(S, n, at), NEW s
    PROVE  Append(at, s) = Appended(n, at, s)
<1>1. at \in Seq(S) /\ Len(at) = n
  BY EnumerationIsSeq
<1>2. at \in Seq(S \cup {s}) /\ s \in S \cup {s}
  <2>1. S \subseteq S \cup {s}
    OBVIOUS
  <2> QED BY <1>1, <2>1, SeqDef
<1> DEFINE a == Append(at, s)
<1>3. /\ a \in Seq(S \cup {s}) /\ Len(a) = n + 1
      /\ \A k \in 1..n : a[k] = at[k]
      /\ a[n+1] = s
  BY <1>1, <1>2, AppendProperties
<1> HIDE DEF a
<1>4. a = [k \in 1..(n+1) |-> a[k]]
  BY <1>3, LenProperties
<1>5. \A k \in 1..(n+1) : a[k] = IF k = n + 1 THEN s ELSE at[k]
  <2>1. \A k \in 1..(n+1) : k = n + 1 \/ k \in 1..n
    OBVIOUS
  <2> QED BY <1>3, <2>1
<1> QED BY <1>4, <1>5 DEF Appended, a

(* The sequence without its p-th element.                                  *)
LEMMA ClosedIsSpliced ==
    ASSUME NEW S, NEW n \in Nat, NEW at, Enumerates(S, n, at), NEW p \in 1..n
    PROVE  SubSeq(at, 1, p - 1) \o SubSeq(at, p + 1, n) = Closed(n, at, p)
<1> DEFINE left == SubSeq(at, 1, p - 1)
           right == SubSeq(at, p + 1, n)
           rest == left \o right
<1>1. \A k \in 1..n : at[k] \in S
  BY DEF Enumerates
<1>2. left \in Seq(S) /\ Len(left) = p - 1 /\ \A k \in 1..(p - 1) : left[k] = at[k]
  <2>1. 1 \in Int /\ p - 1 \in Int /\ \A k \in 1..(p - 1) : at[k] \in S
    BY <1>1
  <2>2. /\ left \in Seq(S)
        /\ Len(left) = IF 1 <= p - 1 THEN (p - 1) - 1 + 1 ELSE 0
        /\ \A k \in 1..((p - 1) - 1 + 1) : left[k] = at[1 + k - 1]
    BY <2>1, SubSeqProperties
  <2> HIDE DEF left
  <2> QED BY <2>2
<1>3. right \in Seq(S) /\ Len(right) = n - p /\ \A k \in 1..(n - p) : right[k] = at[p + k]
  <2>1. p + 1 \in Int /\ n \in Int /\ \A k \in (p + 1)..n : at[k] \in S
    BY <1>1
  <2>2. /\ right \in Seq(S)
        /\ Len(right) = IF p + 1 <= n THEN n - (p + 1) + 1 ELSE 0
        /\ \A k \in 1..(n - (p + 1) + 1) : right[k] = at[(p + 1) + k - 1]
    BY <2>1, SubSeqProperties
  <2> HIDE DEF right
  <2> QED BY <2>2
<1> HIDE DEF left, right
<1>4. /\ rest \in Seq(S) /\ Len(rest) = n - 1
      /\ \A k \in 1..(n - 1) : rest[k] = IF k < p THEN at[k] ELSE at[k+1]
  <2>1. /\ rest \in Seq(S) /\ Len(rest) = Len(left) + Len(right)
        /\ \A k \in 1..(Len(left) + Len(right)) :
              rest[k] = IF k <= Len(left) THEN left[k] ELSE right[k - Len(left)]
    BY <1>2, <1>3, ConcatProperties
  <2> HIDE DEF rest
  <2>2. ASSUME NEW k \in 1..(n - 1) PROVE rest[k] = IF k < p THEN at[k] ELSE at[k+1]
    <3>1. CASE k < p
      BY <1>2, <1>3, <2>1, <3>1
    <3>2. CASE ~(k < p)
      <4>1. k - (p - 1) \in 1..(n - p) /\ p + (k - (p - 1)) = k + 1
        BY <3>2
      <4>2. rest[k] = right[k - (p - 1)]
        BY <1>2, <1>3, <2>1, <3>2
      <4> QED BY <1>3, <3>2, <4>1, <4>2
    <3> QED BY <3>1, <3>2
  <2> QED BY <1>2, <1>3, <2>1, <2>2
<1> HIDE DEF rest
<1>5. rest = [k \in 1..(n-1) |-> rest[k]]
  BY <1>4, LenProperties
<1> QED BY <1>4, <1>5 DEF Closed, rest, left, right

LEMMA ClosedIsTail ==
    ASSUME NEW S, NEW n \in Nat, n # 0, NEW at, Enumerates(S, n, at)
    PROVE  Tail(at) = Closed(n, at, 1)
<1>1. at \in Seq(S) /\ Len(at) = n
  BY EnumerationIsSeq
<1> DEFINE t == Tail(at)
<1>2. at # << >>
  BY <1>1, EmptySeq
<1>3. t \in Seq(S) /\ Len(t) = n - 1 /\ \A k \in 1..(n-1) : t[k] = at[k+1]
  BY <1>1, <1>2, HeadTailProperties
<1> HIDE DEF t
<1>4. t = [k \in 1..(n-1) |-> t[k]]
  BY <1>3, LenProperties
<1>5. \A k \in 1..(n-1) : ~(k < 1)
  OBVIOUS
<1> QED BY <1>3, <1>4, <1>5 DEF Closed, t

-----------------------------------------------------------------------------
(* The last m elements.                                                    *)
Ending(n, at, m) == [k \in 1..m |-> at[(n - m) + k]]

LEMMA EndingIsSuffix ==
    ASSUME NEW S, NEW n \in Nat, NEW at, Enumerates(S, n, at), NEW m \in 0..n
    PROVE  SubSeq(at, (n - m) + 1, n) = Ending(n, at, m)
<1> DEFINE e == SubSeq(at, (n - m) + 1, n)
<1>1. \A k \in ((n - m) + 1)..n : at[k] \in S
  BY DEF Enumerates
<1>2. (n - m) + 1 \in Int /\ n \in Int
  OBVIOUS
<1>3. /\ e \in Seq(S)
      /\ Len(e) = IF (n - m) + 1 <= n THEN n - ((n - m) + 1) + 1 ELSE 0
      /\ \A k \in 1..(n - ((n - m) + 1) + 1) : e[k] = at[((n - m) + 1) + k - 1]
  BY <1>1, <1>2, SubSeqProperties
<1> HIDE DEF e
<1>4. Len(e) = m
  BY <1>3
<1>5. \A k \in 1..m : e[k] = at[(n - m) + k]
  BY <1>3
<1>6. e = [k \in 1..m |-> e[k]]
  BY <1>3, <1>4, LenProperties
<1> QED BY <1>5, <1>6 DEF Ending, e

(* In increasing order the greatest states come last.                      *)
LEMMA EndingEnumerates ==
    ASSUME NEW S, S \subseteq Nat, NEW n \in Nat, NEW at, Enumerates(S, n, at), Increasing(n, at),
           NEW m \in 0..n
    PROVE  /\ Enumerates({at[k] : k \in ((n - m) + 1)..n}, m, Ending(n, at, m))
           /\ Increasing(m, Ending(n, at, m))
<1> DEFINE e == Ending(n, at, m)
           T == {at[k] : k \in ((n - m) + 1)..n}
<1>1. /\ \A j, k \in 1..n : at[j] = at[k] => j = k
      /\ \A j, k \in 1..n : j < k => at[j] < at[k]
  BY DEF Enumerates, Increasing
<1>2. e = [k \in 1..m |-> e[k]] /\ \A k \in 1..m : e[k] = at[(n - m) + k]
  BY DEF Ending
<1> HIDE DEF e
<1>3. \A k \in 1..m : (n - m) + k \in ((n - m) + 1)..n /\ (n - m) + k \in 1..n
  OBVIOUS
<1>4. e \in [1..m -> T]
  BY <1>2, <1>3
<1>5. ASSUME NEW t \in T PROVE \E k \in 1..m : e[k] = t
  <2>1. PICK j \in ((n - m) + 1)..n : t = at[j]
    OBVIOUS
  <2>2. j - (n - m) \in 1..m /\ (n - m) + (j - (n - m)) = j
    OBVIOUS
  <2> QED BY <1>2, <2>1, <2>2
<1>6. ASSUME NEW j \in 1..m, NEW k \in 1..m, e[j] = e[k] PROVE j = k
  <2>1. (n - m) + j = (n - m) + k
    BY <1>1, <1>2, <1>3, <1>6
  <2> QED BY <2>1
<1>7. ASSUME NEW j \in 1..m, NEW k \in 1..m, j < k PROVE e[j] < e[k]
  <2>1. (n - m) + j < (n - m) + k
    BY <1>7
  <2> QED BY <1>1, <1>2, <1>3, <2>1
<1> QED BY <1>4, <1>5, <1>6, <1>7 DEF Enumerates, Increasing, e

LEMMA AfterCount ==
    ASSUME NEW S, S \subseteq Nat, NEW n \in Nat, NEW at, Enumerates(S, n, at), Increasing(n, at),
           NEW p \in 1..n
    PROVE  Cardinality(After(S, at[p])) = n - p
<1>1. n - p \in 0..n /\ n - p \in Nat /\ (n - (n - p)) + 1 = p + 1
  OBVIOUS
<1>2. Enumerates({at[k] : k \in (p + 1)..n}, n - p, Ending(n, at, n - p))
  <2> DEFINE m == n - p
  <2>1. Enumerates({at[k] : k \in ((n - m) + 1)..n}, m, Ending(n, at, m))
    BY <1>1, EndingEnumerates
  <2> QED BY <1>1, <2>1
<1>3. After(S, at[p]) = {at[k] : k \in (p + 1)..n}
  <2>1. /\ \A k \in 1..n : at[k] \in S /\ at[k] \in Nat
        /\ \A t \in S : \E k \in 1..n : at[k] = t
        /\ \A j, k \in 1..n : j < k => at[j] < at[k]
    BY DEF Enumerates, Increasing
  <2>2. ASSUME NEW k \in 1..n PROVE at[k] > at[p] <=> k > p
    <3>1. CASE k > p
      BY <2>1, <3>1
    <3>2. CASE k = p
      BY <2>1, <3>2
    <3>3. CASE k < p
      BY <2>1, <3>3
    <3> QED BY <3>1, <3>2, <3>3
  <2>3. \A k \in (p + 1)..n : k \in 1..n /\ k > p
    OBVIOUS
  <2>4. \A k \in 1..n : k > p => k \in (p + 1)..n
    OBVIOUS
  <2>5. {at[k] : k \in (p + 1)..n} \subseteq After(S, at[p])
    BY <2>1, <2>2, <2>3 DEF After
  <2>6. ASSUME NEW t \in S, t > at[p] PROVE t \in {at[k] : k \in (p + 1)..n}
    <3>1. PICK k \in 1..n : at[k] = t
      BY <2>1
    <3>2. k \in (p + 1)..n
      BY <2>2, <2>4, <2>6, <3>1
    <3> QED BY <3>1, <3>2
  <2> QED BY <2>5, <2>6 DEF After
<1> QED BY <1>1, <1>2, <1>3, EnumerationCounts

(* set_cache_policy keeps the end of the increasing order.                 *)
LEMMA ReboundChain ==
    ASSUME NEW c, Cached(c) \subseteq Nat, NEW n \in Nat, NEW at,
           Enumerates(Cached(c), n, at), Increasing(n, at),
           NEW max \in Nat, NEW m, m = IF n > max THEN max ELSE n
    PROVE  m \in 0..n /\ m \in Nat /\ Chain(Rebound(c, max), m, Ending(n, at, m))
<1> DEFINE S == Cached(c)
           kept == {s \in S : Cardinality(After(S, s)) < max}
           T == {at[k] : k \in ((n - m) + 1)..n}
<1>1. m \in 0..n /\ m \in Nat
  OBVIOUS
<1>2. Enumerates(T, m, Ending(n, at, m)) /\ Increasing(m, Ending(n, at, m))
  BY <1>1, EndingEnumerates
<1>3. /\ \A k \in 1..n : at[k] \in S
      /\ \A t \in S : \E k \in 1..n : at[k] = t
  BY DEF Enumerates
<1>4. \A k \in 1..n : Cardinality(After(S, at[k])) = n - k
  BY AfterCount
<1>5. \A k \in 1..n : n - k < max <=> k \in ((n - m) + 1)..n
  OBVIOUS
<1>6. \A k \in ((n - m) + 1)..n : k \in 1..n
  BY <1>1
<1>7. kept = T
  <2>1. T \subseteq kept
    BY <1>3, <1>4, <1>5, <1>6
  <2>2. ASSUME NEW t \in kept PROVE t \in T
    <3>1. PICK k \in 1..n : at[k] = t
      BY <1>3
    <3>2. k \in ((n - m) + 1)..n
      BY <1>4, <1>5, <3>1
    <3> QED BY <3>1, <3>2
  <2> QED BY <2>1, <2>2
<1>8. Rebound(c, max) = RebuildLru(c, T)
  BY <1>7 DEF Rebound
<1>9. T \subseteq Nat
  BY <1>3, <1>6
<1> HIDE DEF T
<1>10. Chain(RebuildLru(c, T), m, Ending(n, at, m))
  BY <1>1, <1>2, <1>9, RebuildChain
<1> QED BY <1>1, <1>8, <1>10

(* LastOf of the lifecycle.                                                *)
LEMMA EndingIsLast ==
    ASSUME NEW S, NEW n \in Nat, NEW at, Enumerates(S, n, at),
           NEW max \in Nat, NEW m, m = IF n > max THEN max ELSE n
    PROVE  Lifecycle!LastOf(at, max) = Ending(n, at, m)
<1>1. Len(at) = n
  BY EnumerationIsSeq
<1>2. CASE n > max
  <2>1. m \in 0..n /\ n - max + 1 = (n - m) + 1
    BY <1>2
  <2>2. SubSeq(at, (n - m) + 1, n) = Ending(n, at, m)
    BY <2>1, EndingIsSuffix
  <2> QED BY <1>1, <1>2, <2>1, <2>2 DEF Lifecycle!LastOf
<1>3. CASE ~(n > max)
  <2>1. m = n /\ n - m = 0
    BY <1>3
  <2>2. at = [k \in 1..n |-> at[k]]
    BY DEF Enumerates
  <2>3. \A k \in 1..n : (n - m) + k = k
    BY <2>1
  <2>4. Ending(n, at, m) = at
    BY <2>1, <2>2, <2>3 DEF Ending
  <2> QED BY <1>1, <1>3, <2>4 DEF Lifecycle!LastOf
<1> QED BY <1>2, <1>3

-----------------------------------------------------------------------------
(* Phases and stores.                                                      *)

(* Phases tell completed, unexpanded, owned and retryable records apart.   *)
LEMMA PhaseFacts ==
    ASSUME NEW r \in CompletedRecords \cup LifecycleRecords \cup {Unexpanded}
    PROVE  /\ PhaseOf(r) \in Lifecycle!CompletedPhases <=> r.phase \in Completed
           /\ PhaseOf(r) = "unexpanded" <=> r.phase = "unexpanded"
           /\ PhaseOf(r) = "expanding" <=> r.phase = "expanding"
           /\ PhaseOf(r) = "retryable" <=> r.phase = "failed" /\ r.retry
<1>1. r.phase \in {"unexpanded", "expanding", "failed", "cancelled", "empty", "nonempty"}
  BY DEF CompletedRecords, LifecycleRecords, Records, Unexpanded, Record, Completed, Failures
<1> QED BY <1>1 DEF PhaseOf, Lifecycle!CompletedPhases, Completed

LEMMA EntryPhase ==
    ASSUME StoreInv, NEW s \in States
    PROVE  /\ Phases[s] = PhaseOf(EntryOf(s))
           /\ Phases[s] \in Lifecycle!CompletedPhases <=> s \in Cached(cache) \cup DOMAIN transient
           /\ Phases[s] = "unexpanded" <=> EntryOf(s).phase = "unexpanded"
           /\ Phases[s] = "expanding" <=> EntryOf(s).phase = "expanding"
           /\ Phases[s] = "retryable" <=> EntryOf(s).phase = "failed" /\ EntryOf(s).retry
<1>1. Phases[s] = PhaseOf(EntryOf(s))
  BY DEF Phases
<1> QED BY <1>1, CompletedEntries, PhaseFacts

LEMMA HeldIsStored ==
    ASSUME StoreInv
    PROVE  Lifecycle!Held = Cached(cache) \cup DOMAIN transient
<1>1. Cached(cache) \cup DOMAIN transient \subseteq States
  BY DEF StoreInv, IsCache
<1>2. \A s \in States : Phases[s] \in Lifecycle!CompletedPhases
                           <=> s \in Cached(cache) \cup DOMAIN transient
  BY EntryPhase
<1> QED BY <1>1, <1>2 DEF Lifecycle!Held

(* CompletedEntries after a step.                                          *)
LEMMA CompletedAfter ==
    ASSUME StoreInv', NEW s \in States
    PROVE  EntryOf(s)'.phase \in Completed <=> s \in Cached(cache') \cup DOMAIN transient'
<1>1. \A r \in CompletedRecords : r.phase \in Completed
  BY DEF CompletedRecords, Records
<1>2. \A r \in LifecycleRecords : r.phase \notin Completed
  BY DEF LifecycleRecords, Records, Completed, Failures
<1>3. Unexpanded.phase \notin Completed
  BY DEF Unexpanded, Record, Completed
<1>4. CASE s \in Cached(cache')
  <2>1. EntryOf(s)' = cache'.entries[s].record /\ EntryOf(s)' \in CompletedRecords
    BY <1>4 DEF EntryOf, StoreInv, IsCache, IsEntry
  <2> QED BY <1>1, <1>4, <2>1
<1>5. CASE s \notin Cached(cache') /\ s \in DOMAIN transient'
  <2>1. EntryOf(s)' = transient'[s] /\ EntryOf(s)' \in CompletedRecords
    BY <1>5 DEF EntryOf, StoreInv
  <2> QED BY <1>1, <1>5, <2>1
<1>6. CASE s \notin Cached(cache') \cup DOMAIN transient' /\ s \in DOMAIN lifecycle'
  <2>1. EntryOf(s)' = lifecycle'[s] /\ EntryOf(s)' \in LifecycleRecords
    BY <1>6 DEF EntryOf, StoreInv
  <2> QED BY <1>2, <1>6, <2>1
<1>7. CASE s \notin Cached(cache') \cup DOMAIN transient' \cup DOMAIN lifecycle'
  <2>1. EntryOf(s)' = Unexpanded
    BY <1>7 DEF EntryOf
  <2> QED BY <1>3, <1>7, <2>1
<1> QED BY <1>4, <1>5, <1>6, <1>7

(* A state that is not rewritten keeps its phase, unless it was completed  *)
(* and lost its place.                                                     *)
LEMMA Retention ==
    ASSUME StoreInv, StoreInv', NEW t \in States,
           EntryOf(t)' = EntryOf(t) \/ EntryOf(t)' = Unexpanded,
           t \notin Cached(cache) \cup DOMAIN transient => EntryOf(t)' = EntryOf(t)
    PROVE  PhaseOf(EntryOf(t)') = IF /\ t \in Cached(cache) \cup DOMAIN transient
                                     /\ t \notin Cached(cache') \cup DOMAIN transient'
                                  THEN "unexpanded" ELSE Phases[t]
<1>1. Phases[t] = PhaseOf(EntryOf(t))
  BY EntryPhase
<1>2. PhaseOf(Unexpanded) = "unexpanded" /\ Unexpanded.phase \notin Completed
  BY DEF PhaseOf, Unexpanded, Record, Completed
<1>3. EntryOf(t).phase \in Completed <=> t \in Cached(cache) \cup DOMAIN transient
  BY CompletedEntries
<1>4. EntryOf(t)'.phase \in Completed <=> t \in Cached(cache') \cup DOMAIN transient'
  BY CompletedAfter
<1>5. CASE EntryOf(t)' = EntryOf(t)
  BY <1>1, <1>3, <1>4, <1>5
<1>6. CASE EntryOf(t)' = Unexpanded
  BY <1>1, <1>2, <1>3, <1>4, <1>6
<1> QED BY <1>5, <1>6

LEMMA PhasesSet ==
    ASSUME NEW s \in States, NEW record, Sets(s, record)
    PROVE  Phases' = [Phases EXCEPT ![s] = PhaseOf(record)]
<1>1. \A t \in States : PhaseOf(EntryOf(t)') = IF t = s THEN PhaseOf(record) ELSE PhaseOf(EntryOf(t))
  BY DEF Sets
<1> QED BY <1>1 DEF Phases

LEMMA PhasesSame ==
    ASSUME Same
    PROVE  Phases' = Phases
<1>1. \A t \in States : PhaseOf(EntryOf(t)') = PhaseOf(EntryOf(t))
  BY DEF Same
<1> QED BY <1>1 DEF Phases

LEMMA PhasesCleared ==
    ASSUME \A t \in States : EntryOf(t)' = Unexpanded
    PROVE  Phases' = [t \in States |-> "unexpanded"]
<1>1. PhaseOf(Unexpanded) = "unexpanded"
  BY DEF PhaseOf, Unexpanded, Record
<1>2. \A t \in States : PhaseOf(EntryOf(t)') = "unexpanded"
  BY <1>1
<1> QED BY <1>2 DEF Phases

(* The order of access that the links carry.                               *)
LEMMA OrderKept ==
    ASSUME UNCHANGED <<cache, policy>>
    PROVE  LinkedOrder' = LinkedOrder
  BY DEF LinkedOrder

LEMMA EmptyOrder ==
    ASSUME NEW c, Cached(c) = {}
    PROVE  AccessOrder(c) = << >>
<1>1. Cardinality(Cached(c)) = 0
  BY FS_EmptySet
<1> DEFINE o == AccessOrder(c)
<1>2. o \in [1..0 -> {}]
  <2>1. 1..0 = {}
    OBVIOUS
  <2> QED BY <1>1, <2>1 DEF AccessOrder
<1> HIDE DEF o
<1>3. Enumerates({}, 0, o)
  <2>1. 1..0 = {}
    OBVIOUS
  <2> QED BY <1>2, <2>1 DEF Enumerates
<1>4. o \in Seq({}) /\ Len(o) = 0
  BY <1>3, EnumerationIsSeq
<1>5. o = << >>
  BY <1>4, EmptySeq
<1> QED BY <1>5 DEF o

LEMMA KeepsIsPersistent ==
    ASSUME NEW p \in Policies
    PROVE  /\ Lifecycle!Keeps(p) <=> Persistent(p)
           /\ Lifecycle!Exact(p) <=> Persistent(p) /\ p.kind = "Lru"
  BY DEF Lifecycle!Keeps, Lifecycle!Exact, Persistent

(* Under Lru, the order is the chain.                                      *)
LEMMA ChainOrder ==
    ASSUME NULL \notin Cached(cache), NEW n \in Nat, NEW at, Chain(cache, n, at),
           policy.kind = "Lru"
    PROVE  /\ LinkedOrder = at
           /\ at \in Seq(Cached(cache)) /\ Len(at) = n
           /\ Lifecycle!ToSet(at) = Cached(cache)
           /\ \A s \in Cached(cache) : \E p \in 1..n : at[p] = s
<1>1. LinkedOrder = at
  BY WalkIsChain DEF LinkedOrder
<1>2. at \in Seq(Cached(cache)) /\ Len(at) = n
  BY EnumerationIsSeq DEF Chain
<1>3. DOMAIN at = 1..n /\ (\A k \in 1..n : at[k] \in Cached(cache))
      /\ \A s \in Cached(cache) : \E k \in 1..n : at[k] = s
  BY DEF Chain, Enumerates
<1>4. Lifecycle!ToSet(at) = Cached(cache)
  BY <1>3 DEF Lifecycle!ToSet
<1> QED BY <1>1, <1>2, <1>3, <1>4

-----------------------------------------------------------------------------
(* Each step is a step of the lifecycle, or none.                          *)

LEMMA HitRefines ==
    ASSUME IInv, LinksInv, NEW s \in States, Hit(s)
    PROVE  Lifecycle!Access(s) \/ UNCHANGED Lifecycle!lifecycleVars
<1>1. Phases' = Phases /\ policy' = policy
  <2>1. StoreInv' /\ Same
    BY TouchFacts DEF Hit, IInv
  <2> QED BY <2>1, PhasesSame DEF Hit
<1>2. CASE UNCHANGED cache
  BY <1>1, <1>2, OrderKept DEF Lifecycle!lifecycleVars
<1>3. CASE cache' # cache
  <2>1. /\ policy.kind = "Lru" /\ cache' = TouchLru(cache, s)
        /\ cache.tail # s /\ s \in Cached(cache)
    BY <1>3 DEF Hit, TouchLru
  <2>2. /\ IsCache(cache, CompletedRecords) /\ NULL \notin Cached(cache)
        /\ Chained(cache) /\ Cardinality(Cached(cache)) <= policy.max
    BY <2>1, StatesAssumption DEF IInv, StoreInv, LinksInv, IsCache
  <2>3. PICK n, at : n \in Nat /\ Chain(cache, n, at) /\ Cardinality(Cached(cache)) = n
    BY <2>2, ChainedFacts
  <2> n \in Nat
    BY <2>3
  <2>4. PICK p \in 1..n : at[p] = s
    BY <2>1, <2>3 DEF Chain, Enumerates
  <2>5. p # n
    BY <2>1, <2>3, <2>4 DEF Chain, Linked
  <2>6. Chain(cache', n, Appended(n - 1, Closed(n, at, p), s))
    BY <2>1, <2>2, <2>3, <2>4, <2>5, TouchChain
  <2>7. NULL \notin Cached(cache')
    BY <2>1, <2>2, TouchLruFacts
  <2>8. LinkedOrder = at /\ Len(at) = n
    BY <2>1, <2>2, <2>3, ChainOrder
  <2>9. LinkedOrder' = Appended(n - 1, Closed(n, at, p), s)
    BY <1>1, <2>1, <2>6, <2>7, WalkIsChain DEF LinkedOrder
  <2>10. Enumerates(Cached(cache) \ {s}, n - 1, Closed(n, at, p)) /\ n - 1 \in Nat
    BY <2>3, <2>4, ClosedEnumerates DEF Chain
  <2>11. Lifecycle!RemoveAt(at, p) = Closed(n, at, p)
    BY <2>3, <2>4, <2>8, ClosedIsSpliced DEF Chain, Lifecycle!RemoveAt
  <2>12. LinkedOrder' = Append(Lifecycle!RemoveAt(at, p), s)
    BY <2>9, <2>10, <2>11, AppendedIsAppend
  <2>13. Lifecycle!Exact(policy)
    <3>1. policy.max # 0
      BY <2>2, <2>3, <2>4, PolicyAssumption DEF IInv, CallTypes
    <3> QED BY <2>1, <3>1 DEF Lifecycle!Exact
  <2>14. p \in 1..Len(LinkedOrder) /\ LinkedOrder[p] = s
    BY <2>4, <2>8
  <2> QED BY <1>1, <2>8, <2>12, <2>13, <2>14 DEF Lifecycle!Access
<1> QED BY <1>2, <1>3

(* Clearing a state that is not at the source, or the one that is.         *)
LEMMA ClearStateOrder ==
    ASSUME IInv, LinksInv, NEW s \in States, ClearState(s), UNCHANGED policy
    PROVE  IF s \in Lifecycle!ToSet(LinkedOrder)
           THEN \E m \in 1..Len(LinkedOrder) :
                   LinkedOrder[m] = s /\ LinkedOrder' = Lifecycle!RemoveAt(LinkedOrder, m)
           ELSE LinkedOrder' = LinkedOrder
<1>1. cache' = RemoveCached(cache, s)
  BY DEF ClearState
<1>2. CASE policy.kind # "Lru"
  <2>1. LinkedOrder = << >> /\ LinkedOrder' = << >>
    BY <1>2 DEF LinkedOrder
  <2>2. s \notin Lifecycle!ToSet(<< >>)
    BY DEF Lifecycle!ToSet
  <2> QED BY <2>1, <2>2
<1>3. CASE policy.kind = "Lru"
  <2>1. /\ IsCache(cache, CompletedRecords) /\ NULL \notin Cached(cache) /\ Chained(cache)
    BY <1>3, StatesAssumption DEF IInv, StoreInv, LinksInv, IsCache
  <2>2. PICK n, at : n \in Nat /\ Chain(cache, n, at)
    BY <2>1, ChainedFacts
  <2> n \in Nat
    BY <2>2
  <2>3. LinkedOrder = at /\ Len(at) = n /\ Lifecycle!ToSet(at) = Cached(cache)
    BY <1>3, <2>1, <2>2, ChainOrder
  <2>4. CASE s \notin Cached(cache)
    <3>1. cache' = cache
      BY <1>1, <2>4 DEF RemoveCached
    <3> QED BY <2>3, <2>4, <3>1, OrderKept
  <2>5. CASE s \in Cached(cache)
    <3>1. PICK p \in 1..n : at[p] = s
      BY <2>2, <2>5 DEF Chain, Enumerates
    <3>2. Chain(cache', n - 1, Closed(n, at, p)) /\ n - 1 \in Nat
      BY <1>1, <2>1, <2>2, <3>1, RemoveChain
    <3>3. NULL \notin Cached(cache')
      <4>1. Cached(cache') = Cached(cache) \ {s}
        BY ONLY <1>1, <2>1, RemovedFromCache
      <4> QED BY <2>1, <4>1
    <3>4. LinkedOrder' = Closed(n, at, p)
      BY <1>3, <3>2, <3>3, WalkIsChain DEF LinkedOrder
    <3>5. Lifecycle!RemoveAt(at, p) = Closed(n, at, p)
      BY <2>2, <2>3, <3>1, ClosedIsSpliced DEF Chain, Lifecycle!RemoveAt
    <3> QED BY <2>3, <2>5, <3>1, <3>4, <3>5
  <2> QED BY <2>4, <2>5
<1> QED BY <1>2, <1>3

LEMMA ForgetRefines ==
    ASSUME IInv, LinksInv, NEW s \in States, Reset(s) \/ Forget(s)
    PROVE  Lifecycle!Forget(s)
<1>1. ClearState(s) /\ policy' = policy /\ At("idle")
  BY DEF Reset, Forget
<1>2. Sets(s, Unexpanded)
  BY <1>1, ClearStateFacts DEF IInv
<1>3. Phases' = [Phases EXCEPT ![s] = "unexpanded"]
  <2>1. PhaseOf(Unexpanded) = "unexpanded"
    BY DEF PhaseOf, Unexpanded, Record
  <2> QED BY <1>2, <2>1, PhasesSet
<1>4. Phases[s] # "expanding"
  <2>1. EntryOf(s).phase # "expanding"
    BY <1>1 DEF IInv, OwnerInv, At, Invoking
  <2> QED BY <2>1, EntryPhase DEF IInv
<1> QED BY <1>1, <1>3, <1>4, ClearStateOrder DEF Lifecycle!Forget

(* A panic whose source did not change leaves its state unexpanded.        *)
LEMMA UnwindRefines ==
    ASSUME IInv, LinksInv, Unwind, Fresh
    PROVE  state \in States /\ Lifecycle!Fail(state)
<1>1. ClearState(state) /\ state \in States /\ policy' = policy /\ At("unwinding")
  BY DEF Unwind, IInv, CallTypes, At
<1>2. PICK s \in States : s = state
  BY <1>1
<1>3. Sets(s, Unexpanded) /\ StoreInv
  BY <1>1, <1>2, ClearStateFacts DEF IInv
<1>4. Phases' = [Phases EXCEPT ![s] = "unexpanded"]
  <2>1. PhaseOf(Unexpanded) = "unexpanded"
    BY DEF PhaseOf, Unexpanded, Record
  <2> QED BY <1>3, <2>1, PhasesSet
<1>5. Phases[s] = "expanding"
  <2>1. EntryOf(s).phase = "expanding"
    BY <1>1, <1>2 DEF IInv, OwnerInv, At, Invoking
  <2> QED BY <1>3, <2>1, EntryPhase
<1>6. s \notin Cached(cache)
  BY <1>3, <1>5, EntryPhase DEF Lifecycle!CompletedPhases
<1>7. cache' = cache
  BY <1>1, <1>2, <1>6 DEF ClearState, RemoveCached
<1>8. LinkedOrder' = LinkedOrder
  BY <1>1, <1>7, OrderKept
<1> QED BY <1>1, <1>2, <1>4, <1>5, <1>8 DEF Lifecycle!Fail

LEMMA ClearingRefines ==
    ASSUME ClearAllStates, UNCHANGED policy
    PROVE  Lifecycle!Invalidate
<1>1. Phases' = [t \in States |-> "unexpanded"]
  BY ClearAllFacts, PhasesCleared
<1>2. Cached(cache') = {}
  BY EmptyCacheFacts DEF ClearAllStates
<1>3. LinkedOrder' = << >>
  BY <1>2, EmptyOrder DEF LinkedOrder
<1> QED BY <1>1, <1>3 DEF Lifecycle!Invalidate

(* The four steps that write a record of the call's state.                 *)
LEMMA WritePhases ==
    ASSUME IInv, ~At("idle"), NEW record \in LifecycleRecords,
           StoreLifecycle(state, record), UNCHANGED policy
    PROVE  /\ state \in States
           /\ Phases' = [Phases EXCEPT ![state] = PhaseOf(record)]
           /\ LinkedOrder' = LinkedOrder
<1>1. state \in States /\ StoreInv /\ state \notin Cached(cache) \cup DOMAIN transient
  BY CompletedEntries DEF IInv, CallTypes, ActiveInv
<1>2. PICK s \in States : s = state
  BY <1>1
<1>3. Sets(s, record)
  BY <1>1, <1>2, StoreLifecycleFacts
<1>4. Phases' = [Phases EXCEPT ![s] = PhaseOf(record)]
  BY <1>3, PhasesSet
<1>5. LinkedOrder' = LinkedOrder
  BY OrderKept DEF StoreLifecycle
<1> QED BY <1>1, <1>2, <1>4, <1>5

LEMMA CancelledIsRecord ==
    ASSUME IInv
    PROVE  Cancelled(attempts) \in LifecycleRecords /\ PhaseOf(Cancelled(attempts)) = "cancelled"
  BY DEF IInv, CallTypes, Cancelled, Record, LifecycleRecords, Records, Failures, PhaseOf

(* A call that may begin finds its state unexpanded or retryable, and no   *)
(* other state at the source.                                              *)
LEMMA AuthorizedMayBegin ==
    ASSUME IInv, At("checked"), Authorized
    PROVE  /\ Phases[state] \in {"unexpanded", "retryable"}
           /\ \A t \in States : Phases[t] # "expanding"
<1>1. state \in States /\ StoreInv
  BY DEF IInv, CallTypes, At
<1>2. PICK s \in States : s = state
  BY <1>1
<1>3. EntryOf(s).phase = "unexpanded" \/ (EntryOf(s).phase = "failed" /\ EntryOf(s).retry)
  BY <1>2 DEF Authorized
<1>4. Phases[s] = "unexpanded" \/ Phases[s] = "retryable"
  BY <1>1, <1>3, EntryPhase
<1>5. ASSUME NEW t \in States PROVE Phases[t] # "expanding"
  <2>1. EntryOf(t).phase # "expanding"
    BY DEF IInv, OwnerInv, At, Invoking
  <2> QED BY <1>1, <2>1, EntryPhase
<1> QED BY <1>2, <1>4, <1>5

LEMMA BeginningRefines ==
    ASSUME IInv, Precancel \/ Begin
    PROVE  state \in States /\ Lifecycle!Begin(state)
<1>1. At("checked") /\ Authorized /\ policy' = policy /\ ~At("idle")
  BY DEF Precancel, Begin, At
<1>2. PICK record \in LifecycleRecords :
         StoreLifecycle(state, record) /\ PhaseOf(record) \in {"expanding", "cancelled"}
  <2>1. CASE Precancel
    BY <2>1, CancelledIsRecord DEF Precancel
  <2>2. CASE Begin
    <3>1. attempts' \in 0..MaxAttempts
      BY <2>2, AttemptsAssumption DEF Begin, IInv, CallTypes
    <3> DEFINE r == Record("expanding", FALSE, attempts', NULL)
    <3>2. r \in LifecycleRecords /\ PhaseOf(r) = "expanding"
      BY <3>1 DEF Record, LifecycleRecords, Records, PhaseOf
    <3>3. StoreLifecycle(state, r)
      BY <2>2 DEF Begin
    <3> HIDE DEF r
    <3> QED BY <3>2, <3>3
  <2> QED BY <2>1, <2>2
<1>3. /\ state \in States /\ Phases' = [Phases EXCEPT ![state] = PhaseOf(record)]
      /\ LinkedOrder' = LinkedOrder
  BY <1>1, <1>2, WritePhases
<1> QED BY <1>1, <1>2, <1>3, AuthorizedMayBegin DEF Lifecycle!Begin

LEMMA AcceptedIsOwned ==
    ASSUME IInv, At("accepted")
    PROVE  state \in States /\ Phases[state] = "expanding"
<1>1. state \in States /\ StoreInv
  BY DEF IInv, CallTypes, At
<1>2. PICK s \in States : s = state
  BY <1>1
<1>3. EntryOf(s).phase = "expanding"
  BY <1>2 DEF IInv, OwnerInv, At, Invoking
<1> QED BY <1>1, <1>2, <1>3, EntryPhase

LEMMA FailingRefines ==
    ASSUME IInv, CancelWins \/ Fail
    PROVE  state \in States /\ Lifecycle!Fail(state)
<1>1. At("accepted") /\ policy' = policy /\ ~At("idle")
  BY DEF CancelWins, Fail, At
<1>2. PICK record \in LifecycleRecords :
         StoreLifecycle(state, record) /\ PhaseOf(record) \in Lifecycle!FailedPhases
  <2>1. CASE CancelWins
    BY <2>1, CancelledIsRecord DEF CancelWins, Lifecycle!FailedPhases
  <2>2. CASE Fail
    <3>1. outcome \in LifecycleRecords /\ outcome.phase \in Failures
      BY <2>2 DEF Fail, At, IInv, CallTypes, Results, LifecycleRecords, Records
    <3>2. PhaseOf(outcome) \in Lifecycle!FailedPhases
      BY <3>1 DEF PhaseOf, Failures, Lifecycle!FailedPhases
    <3> QED BY <2>2, <3>1, <3>2 DEF Fail
  <2> QED BY <2>1, <2>2
<1>3. Phases' = [Phases EXCEPT ![state] = PhaseOf(record)] /\ LinkedOrder' = LinkedOrder
  BY <1>1, <1>2, WritePhases
<1> QED BY <1>1, <1>2, <1>3, AcceptedIsOwned DEF Lifecycle!Fail

(* What completing a state does to the others.                             *)
LEMMA CompletionPhases ==
    ASSUME StoreInv, NEW s \in States, NEW record \in CompletedRecords,
           s \notin Cached(cache) \cup DOMAIN transient,
           InsertCompleted(s, record), UNCHANGED policy
    PROVE  /\ PhaseOf(record) \in Lifecycle!CompletedPhases
           /\ Phases' = [t \in States |->
                            IF t = s THEN PhaseOf(record)
                            ELSE IF /\ t \in Cached(cache) \cup DOMAIN transient
                                    /\ t \notin Cached(cache') \cup DOMAIN transient'
                            THEN "unexpanded" ELSE Phases[t]]
<1>1. /\ StoreInv' /\ EntryOf(s)' = record
      /\ \A t \in States \ {s} : EntryOf(t)' = EntryOf(t) \/ EntryOf(t)' = Unexpanded
  BY InsertCompletedFacts
<1>2. ASSUME NEW t \in States \ {s}, t \notin Cached(cache) \cup DOMAIN transient
      PROVE  EntryOf(t)' = EntryOf(t)
  <2>1. t \notin Cached(cache')
    <3>1. CASE Persistent(policy)
      <4>1. Inserted(cache, cache', s, record, CompletedRecords)
        BY <3>1, InsertRecentFacts, InsertUnlinkedFacts DEF InsertCompleted, StoreInv
      <4> QED BY <1>2, <4>1 DEF Inserted
    <3>2. CASE ~Persistent(policy)
      BY <1>2, <3>2 DEF InsertCompleted
    <3> QED BY <3>1, <3>2
  <2>2. t \notin DOMAIN transient'
    BY <1>2, EmptyCacheFacts DEF InsertCompleted, With
  <2>3. lifecycle' = Without(lifecycle, s)
    BY DEF InsertCompleted
  <2>4. /\ t \in DOMAIN lifecycle' <=> t \in DOMAIN lifecycle
        /\ t \in DOMAIN lifecycle => lifecycle'[t] = lifecycle[t]
    BY <2>3 DEF Without
  <2> QED BY <1>2, <2>1, <2>2, <2>4 DEF EntryOf
<1>3. ASSUME NEW t \in States
      PROVE  PhaseOf(EntryOf(t)') = IF t = s THEN PhaseOf(record)
                                    ELSE IF /\ t \in Cached(cache) \cup DOMAIN transient
                                            /\ t \notin Cached(cache') \cup DOMAIN transient'
                                    THEN "unexpanded" ELSE Phases[t]
  BY <1>1, <1>2, Retention
<1>4. PhaseOf(record) \in Lifecycle!CompletedPhases
  <2>1. record.phase \in Completed
    BY DEF CompletedRecords, Records
  <2> QED BY <2>1, PhaseFacts
<1> QED BY <1>3, <1>4 DEF Phases

LEMMA CompletionRetains ==
    ASSUME StoreInv, NEW s \in States, NEW record \in CompletedRecords,
           s \notin Cached(cache) \cup DOMAIN transient,
           InsertCompleted(s, record), UNCHANGED policy, NEW kept,
           \A t \in (Cached(cache) \cup DOMAIN transient) \ {s} :
              t \in kept <=> t \in Cached(cache') \cup DOMAIN transient'
    PROVE  \E p \in Lifecycle!CompletedPhases :
              Phases' = [Lifecycle!Retaining(kept) EXCEPT ![s] = p]
<1> DEFINE r == Lifecycle!Retaining(kept)
           p == PhaseOf(record)
<1>1. r = [t \in States |-> IF t \in (Cached(cache) \cup DOMAIN transient) \ kept
                            THEN "unexpanded" ELSE Phases[t]]
  BY HeldIsStored DEF Lifecycle!Retaining
<1>2. /\ p \in Lifecycle!CompletedPhases
      /\ Phases' = [t \in States |->
                       IF t = s THEN p
                       ELSE IF /\ t \in Cached(cache) \cup DOMAIN transient
                               /\ t \notin Cached(cache') \cup DOMAIN transient'
                       THEN "unexpanded" ELSE Phases[t]]
  BY CompletionPhases
<1> HIDE DEF r, p
<1>3. [r EXCEPT ![s] = p] = [t \in States |-> IF t = s THEN p ELSE r[t]]
  BY <1>1
<1>4. \A t \in States :
         (IF t = s THEN p ELSE r[t]) =
         IF t = s THEN p
         ELSE IF /\ t \in Cached(cache) \cup DOMAIN transient
                 /\ t \notin Cached(cache') \cup DOMAIN transient'
         THEN "unexpanded" ELSE Phases[t]
  BY <1>1
<1>5. Phases' = [r EXCEPT ![s] = p]
  BY <1>2, <1>3, <1>4
<1> QED BY <1>2, <1>5 DEF r

LEMMA RoomEnumerates ==
    ASSUME NEW S, NEW n \in Nat, NEW at, Enumerates(S, n, at), NEW max \in Nat, max # 0, n <= max
    PROVE  \E T \in SUBSET S : Enumerates(T, RoomSize(n, max), Room(n, at, max))
<1>1. CASE n = max
  <2>1. 1 \in 1..n
    BY <1>1
  <2>2. Enumerates(S \ {at[1]}, n - 1, Closed(n, at, 1))
    BY <2>1, ClosedEnumerates
  <2> QED BY <1>1, <2>2 DEF RoomSize, Room
<1>2. CASE n # max
  BY <1>2 DEF RoomSize, Room
<1> QED BY <1>1, <1>2

LEMMA EnumeratedSet ==
    ASSUME NEW S, NEW n \in Nat, NEW at, Enumerates(S, n, at)
    PROVE  S = {at[k] : k \in 1..n} /\ S = Lifecycle!ToSet(at)
<1>1. DOMAIN at = 1..n /\ (\A k \in 1..n : at[k] \in S) /\ \A s \in S : \E k \in 1..n : at[k] = s
  BY DEF Enumerates
<1> QED BY <1>1 DEF Lifecycle!ToSet

LEMMA CompleteRefines ==
    ASSUME IInv, LinksInv, Complete
    PROVE  state \in States /\ Lifecycle!Complete(state)
<1>1. /\ At("accepted") /\ ~At("idle") /\ policy' = policy /\ policy \in Policies /\ StoreInv
      /\ InsertCompleted(state, outcome)
  BY DEF Complete, At, IInv, CallTypes
<1>2. /\ state \in States /\ state \notin Cached(cache) \cup DOMAIN transient
      /\ Phases[state] = "expanding"
  BY <1>1, AcceptedIsOwned, CompletedEntries DEF IInv, CallTypes, ActiveInv
<1>3. outcome \in CompletedRecords
  BY DEF Complete, IInv, CallTypes, At, Results, CompletedRecords, Records
<1>4. PICK s \in States : s = state
  BY <1>2
<1>5. PICK record \in CompletedRecords : record = outcome
  BY <1>3
<1>6. InsertCompleted(s, record) /\ s \notin Cached(cache) \cup DOMAIN transient
      /\ Phases[s] = "expanding"
  BY <1>1, <1>2, <1>4, <1>5
<1>7. ASSUME NEW kept,
             \A t \in (Cached(cache) \cup DOMAIN transient) \ {s} :
                t \in kept <=> t \in Cached(cache') \cup DOMAIN transient'
      PROVE  \E p \in Lifecycle!CompletedPhases :
                Phases' = [Lifecycle!Retaining(kept) EXCEPT ![s] = p]
  BY <1>1, <1>6, <1>7, CompletionRetains
<1>8. /\ Lifecycle!Keeps(policy) <=> Persistent(policy)
      /\ Lifecycle!Exact(policy) <=> Persistent(policy) /\ policy.kind = "Lru"
  BY <1>1, KeepsIsPersistent
<1>9. CASE ~Persistent(policy)
  <2>1. cache' = cache /\ Cached(cache) = {} /\ DOMAIN transient' = {s}
    BY <1>1, <1>6, <1>9, EmptyCacheFacts DEF InsertCompleted, StoreInv, With
  <2>2. \E p \in Lifecycle!CompletedPhases : Phases' = [Lifecycle!Retaining({}) EXCEPT ![s] = p]
    BY <1>7, <2>1
  <2>3. LinkedOrder' = LinkedOrder
    BY <1>1, <2>1, OrderKept
  <2> QED BY <1>1, <1>4, <1>6, <1>8, <1>9, <2>2, <2>3 DEF Lifecycle!Complete
<1>10. CASE Persistent(policy) /\ policy.kind # "Lru"
  <2>1. cache' = InsertUnlinked(cache, s, record) /\ DOMAIN transient = {} /\ DOMAIN transient' = {}
    BY <1>1, <1>6, <1>10, EmptyCacheFacts DEF InsertCompleted, StoreInv
  <2>2. Cached(cache') = Cached(cache) \cup {s}
    <3>1. NULL \notin Cached(cache) /\ IsCache(cache, CompletedRecords) /\ IsUnlinked(cache)
      BY <1>1, <1>10, StatesAssumption DEF StoreInv, IsCache, LinksInv
    <3> QED BY <2>1, <3>1, InsertKeepsUnlinked
  <2>3. \E p \in Lifecycle!CompletedPhases :
           Phases' = [Lifecycle!Retaining(Lifecycle!Held) EXCEPT ![s] = p]
    BY <1>1, <1>7, <2>1, <2>2, HeldIsStored
  <2>4. LinkedOrder' = LinkedOrder
    BY <1>1, <1>10 DEF LinkedOrder
  <2> QED BY <1>1, <1>4, <1>6, <1>8, <1>10, <2>3, <2>4 DEF Lifecycle!Complete
<1>11. CASE Persistent(policy) /\ policy.kind = "Lru"
  <2> DEFINE max == policy.max
  <2>1. /\ cache' = InsertRecent(cache, s, record, max) /\ max # 0 /\ max \in Nat
        /\ DOMAIN transient = {} /\ DOMAIN transient' = {}
    BY <1>1, <1>6, <1>11, EmptyCacheFacts, PolicyAssumption DEF InsertCompleted, Persistent, StoreInv
  <2>2. /\ IsCache(cache, CompletedRecords) /\ NULL \notin Cached(cache)
        /\ Chained(cache) /\ Cardinality(Cached(cache)) <= max
    BY <1>1, <1>11, StatesAssumption DEF StoreInv, LinksInv, IsCache
  <2>3. PICK n, at : n \in Nat /\ Chain(cache, n, at) /\ Cardinality(Cached(cache)) = n
    BY <2>2, ChainedFacts
  <2> n \in Nat
    BY <2>3
  <2>4. n <= max /\ Enumerates(Cached(cache), n, at) /\ LinkedOrder = at
    BY <1>11, <2>2, <2>3, ChainOrder DEF Chain
  <2> DEFINE room == Room(n, at, max)
             m == RoomSize(n, max)
  <2> HIDE DEF max
  <2>5. m \in Nat /\ Chain(cache', m + 1, Appended(m, room, s))
    BY <1>6, <2>1, <2>2, <2>3, <2>4, InsertRecentChain
  <2>6. PICK T \in SUBSET Cached(cache) : Enumerates(T, m, room)
    BY <2>1, <2>4, RoomEnumerates
  <2>7. (IF Len(at) = max THEN Tail(at) ELSE at) = room
    <3>1. max \in Nat /\ max # 0 /\ Enumerates(Cached(cache), n, at)
      BY <2>1, <2>4
    <3>2. Len(at) = n
      BY <3>1, EnumerationIsSeq
    <3>3. n = max => Tail(at) = Closed(n, at, 1)
      BY <3>1, ClosedIsTail
    <3> QED BY <3>2, <3>3 DEF Room
  <2> HIDE DEF room, m
  <2>8. s \notin T
    BY <1>6, <2>6
  <2>9. Cached(cache') = T \cup {s}
    <3>1. Enumerates(T \cup {s}, m + 1, Appended(m, room, s)) /\ m + 1 \in Nat
      BY <2>5, <2>6, <2>8, AppendedEnumerates
    <3>2. Enumerates(Cached(cache'), m + 1, Appended(m, room, s))
      BY <2>5 DEF Chain
    <3> QED BY <3>1, <3>2, EnumeratedSet
  <2>10. T = Lifecycle!ToSet(room)
    BY <2>5, <2>6, EnumeratedSet
  <2>11. \E p \in Lifecycle!CompletedPhases :
            Phases' = [Lifecycle!Retaining(Lifecycle!ToSet(room)) EXCEPT ![s] = p]
    BY <1>7, <2>1, <2>9, <2>10
  <2>12. LinkedOrder' = Append(room, s)
    <3>1. Append(room, s) = Appended(m, room, s)
      BY <2>5, <2>6, AppendedIsAppend
    <3>2. NULL \notin Cached(cache') /\ m + 1 \in Nat
      BY <1>6, <2>2, <2>5, <2>6, <2>9, StatesAssumption
    <3>3. AccessOrder(cache') = Appended(m, room, s)
      BY <2>5, <3>2, WalkIsChain
    <3> QED BY <1>1, <1>11, <3>1, <3>3 DEF LinkedOrder
  <2> QED BY <1>1, <1>4, <1>6, <1>8, <1>11, <2>4, <2>7, <2>11, <2>12 DEF Lifecycle!Complete, max
<1> QED BY <1>9, <1>10, <1>11

LEMMA PolicyRetains ==
    ASSUME StoreInv, NEW p, SetCachePolicy(p), NEW kept,
           \A t \in Cached(cache) \cup DOMAIN transient : t \in kept <=> t \in Cached(cache')
    PROVE  Phases' = Lifecycle!Retaining(kept)
<1>1. StoreInv' /\ Drops
  BY SetCachePolicyFacts
<1>2. DOMAIN transient' = {} /\ lifecycle' = lifecycle
  BY EmptyCacheFacts DEF SetCachePolicy
<1>3. Cached(cache') \subseteq Cached(cache)
  <2>1. IsCache(cache, CompletedRecords)
    BY DEF StoreInv
  <2>2. CASE ~Persistent(p)
    BY <2>2, EmptyCacheFacts DEF SetCachePolicy
  <2>3. CASE Persistent(p) /\ p.kind = "Lru"
    <3>1. cache' = Rebound(cache, p.max)
      BY <2>3 DEF SetCachePolicy
    <3> QED BY <2>1, <3>1, RebindingFacts DEF KeepsRecords
  <2>4. CASE Persistent(p) /\ p.kind # "Lru"
    <3>1. cache' = Unlinked(cache)
      BY <2>4 DEF SetCachePolicy
    <3> QED BY <3>1, UnlinkedUnlinks
  <2> QED BY <2>2, <2>3, <2>4
<1>4. ASSUME NEW t \in States
      PROVE  PhaseOf(EntryOf(t)') = IF t \in (Cached(cache) \cup DOMAIN transient) \ kept
                                    THEN "unexpanded" ELSE Phases[t]
  <2>1. EntryOf(t)' = EntryOf(t) \/ EntryOf(t)' = Unexpanded
    BY <1>1 DEF Drops
  <2>2. t \notin Cached(cache) \cup DOMAIN transient => EntryOf(t)' = EntryOf(t)
    BY <1>2, <1>3 DEF EntryOf
  <2>3. PhaseOf(EntryOf(t)') = IF /\ t \in Cached(cache) \cup DOMAIN transient
                                  /\ t \notin Cached(cache') \cup DOMAIN transient'
                               THEN "unexpanded" ELSE Phases[t]
    BY <1>1, <2>1, <2>2, Retention
  <2> QED BY <1>2, <2>3
<1> QED BY <1>4, HeldIsStored DEF Phases, Lifecycle!Retaining

(* Before a change to Lru the cached states have an increasing order; what *)
(* it ends with is rebuilt.                                                *)
LEMMA ReboundRefines ==
    ASSUME Cached(cache) \subseteq Nat, IsFiniteSet(Cached(cache)), NEW max \in Nat,
           cache' = Rebound(cache, max), NULL \notin Cached(cache')
    PROVE  /\ \E seq \in Lifecycle!Listing(Cached(cache)) :
                 AccessOrder(cache') = Lifecycle!LastOf(seq, max)
           /\ Lifecycle!ToSet(AccessOrder(cache')) = Cached(cache')
<1>1. PICK n, at : n \in Nat /\ Enumerates(Cached(cache), n, at) /\ Increasing(n, at)
  BY SortedEnumeration DEF HasIncreasing
<1> n \in Nat
  BY <1>1
<1> DEFINE m == IF n > max THEN max ELSE n
<1>2. /\ m \in 0..n /\ m \in Nat /\ Chain(cache', m, Ending(n, at, m))
      /\ Lifecycle!LastOf(at, max) = Ending(n, at, m)
  BY <1>1, ReboundChain, EndingIsLast
<1> HIDE DEF m
<1>3. AccessOrder(cache') = Ending(n, at, m)
  BY <1>2, WalkIsChain
<1>4. at \in Lifecycle!Listing(Cached(cache))
  <2>1. Cardinality(Cached(cache)) = n
    BY <1>1, EnumerationCounts
  <2>2. Lifecycle!Cardinality(Cached(cache)) = Cardinality(Cached(cache))
    BY DEF Lifecycle!Cardinality, Cardinality
  <2> QED BY <1>1, <2>1, <2>2 DEF Lifecycle!Listing, Enumerates, Increasing
<1>5. Lifecycle!ToSet(Ending(n, at, m)) = Cached(cache')
  BY <1>2, EnumeratedSet DEF Chain
<1> QED BY <1>2, <1>3, <1>4, <1>5

LEMMA SetPolicyRefines ==
    ASSUME IInv, LinksInv, NEW p \in Policies, SetCachePolicy(p)
    PROVE  Lifecycle!SetPolicy(p)
<1>1. /\ StoreInv /\ policy \in Policies /\ policy' = p /\ p.max \in Nat
      /\ Cached(cache) \subseteq Nat /\ Cached(cache) \subseteq States /\ IsFiniteSet(Cached(cache))
  BY StatesAssumption, PolicyAssumption
  DEF IInv, CallTypes, StoreInv, IsCache, LinksInv, SetCachePolicy
<1>2. /\ Lifecycle!Keeps(policy) <=> Persistent(policy)
      /\ Lifecycle!Keeps(p) <=> Persistent(p)
      /\ Lifecycle!Exact(p) <=> Persistent(p) /\ p.kind = "Lru"
  BY <1>1, KeepsIsPersistent
<1>3. cache' = IF ~Persistent(p) THEN EmptyCache
               ELSE IF p.kind = "Lru" THEN Rebound(cache, p.max) ELSE Unlinked(cache)
  BY DEF SetCachePolicy
<1>4. IF Persistent(policy) THEN DOMAIN transient = {} ELSE Cached(cache) = {}
  BY <1>1 DEF StoreInv
<1>5. KeepsRecords(cache, Rebound(cache, p.max))
  BY <1>1, RebindingFacts DEF StoreInv
<1>6. CASE Persistent(policy) /\ Lifecycle!Exact(p)
  <2>1. cache' = Rebound(cache, p.max) /\ Lifecycle!Held = Cached(cache) /\ p.kind = "Lru"
    BY <1>1, <1>2, <1>3, <1>4, <1>6, HeldIsStored
  <2>2. NULL \notin Cached(cache')
    BY <1>1, <1>5, <2>1, StatesAssumption DEF KeepsRecords
  <2>3. LinkedOrder' = AccessOrder(cache')
    BY <1>1, <2>1 DEF LinkedOrder
  <2>4. /\ \E seq \in Lifecycle!Listing(Lifecycle!Held) :
              LinkedOrder' = Lifecycle!LastOf(seq, p.max)
        /\ Lifecycle!ToSet(LinkedOrder') = Cached(cache')
    BY <1>1, <2>1, <2>2, <2>3, ReboundRefines
  <2>5. Phases' = Lifecycle!Retaining(Lifecycle!ToSet(LinkedOrder'))
    BY <1>1, <2>4, PolicyRetains
  <2> QED BY <1>1, <1>2, <1>6, <2>4, <2>5 DEF Lifecycle!SetPolicy
<1>7. CASE ~(Persistent(policy) /\ Lifecycle!Exact(p))
  <2>1. LinkedOrder' = << >>
    <3>1. CASE p.kind # "Lru"
      BY <1>1, <3>1 DEF LinkedOrder
    <3>2. CASE p.kind = "Lru"
      <4>1. Cached(cache') = {}
        BY <1>2, <1>3, <1>4, <1>5, <1>7, <3>2, EmptyCacheFacts DEF KeepsRecords
      <4> QED BY <1>1, <3>2, <4>1, EmptyOrder DEF LinkedOrder
    <3> QED BY <3>1, <3>2
  <2> DEFINE kept == IF Persistent(policy) /\ Persistent(p) THEN Lifecycle!Held ELSE {}
  <2>2. ASSUME NEW t \in Cached(cache) \cup DOMAIN transient
        PROVE  t \in kept <=> t \in Cached(cache')
    <3>1. CASE Persistent(policy) /\ Persistent(p)
      <4>1. cache' = Unlinked(cache)
        BY <1>2, <1>3, <1>7, <3>1
      <4> QED BY <1>1, <1>4, <2>2, <3>1, <4>1, UnlinkedUnlinks, HeldIsStored
    <3>2. CASE ~Persistent(p)
      BY <1>3, <3>2, EmptyCacheFacts
    <3>3. CASE ~Persistent(policy) /\ Persistent(p)
      <4>1. Cached(cache') = {}
        BY <1>3, <1>4, <1>5, <3>3, UnlinkedUnlinks DEF KeepsRecords
      <4> QED BY <3>3, <4>1
    <3> QED BY <3>1, <3>2, <3>3
  <2> HIDE DEF kept
  <2>3. Phases' = Lifecycle!Retaining(kept)
    BY <1>1, <2>2, PolicyRetains
  <2> QED BY <1>1, <1>2, <1>7, <2>1, <2>3 DEF Lifecycle!SetPolicy, kept
<1> QED BY <1>6, <1>7

LEMMA StepRefines ==
    ASSUME IInv, LinksInv, [Next]_vars
    PROVE  [Lifecycle!Next]_Lifecycle!lifecycleVars
<1>1. CASE QuietStep
  <2>1. CASE \E s \in States : Hit(s)
    BY <2>1, HitRefines DEF Lifecycle!Next
  <2>2. CASE ~ \E s \in States : Hit(s)
    <3>1. UNCHANGED <<cache, lifecycle, transient>> /\ UNCHANGED policy
      BY <1>1, <2>2 DEF QuietStep, Check, Refuse, Compute, Panic, Accept, Cancel, SourceChanges,
                        vars, store
    <3>2. Same
      BY <3>1, UnchangedStore DEF IInv
    <3> QED BY <3>1, <3>2, PhasesSame, OrderKept DEF Lifecycle!lifecycleVars
  <2> QED BY <2>1, <2>2
<1>2. CASE ForgettingStep
  <2>1. CASE Unwind /\ Fresh
    BY <2>1, UnwindRefines DEF Lifecycle!Next
  <2>2. CASE \E s \in States : Reset(s) \/ Forget(s)
    BY <2>2, ForgetRefines DEF Lifecycle!Next
  <2>3. CASE ClearCache
    BY <2>3, ClearingRefines DEF ClearCache, Lifecycle!Next
  <2>4. CASE \E p \in Policies : SetCachePolicy(p)
    BY <2>4, SetPolicyRefines DEF Lifecycle!Next
  <2> QED BY <1>2, <2>1, <2>2, <2>3, <2>4 DEF ForgettingStep
<1>3. CASE RestartingStep
  <2>1. ClearAllStates /\ UNCHANGED policy
    BY <1>3 DEF RestartingStep, Unwind, Reject, RefreshSnapshot, ReplaceSource, Rebind
  <2> QED BY <2>1, ClearingRefines DEF Lifecycle!Next
<1>4. CASE WritingStep
  BY <1>4, BeginningRefines, FailingRefines, CompleteRefines DEF WritingStep, Lifecycle!Next
<1> QED BY <1>1, <1>2, <1>3, <1>4, StepCases

(* LazyWfstWrapper keeps its promises for any number of states, any        *)
(* sources and any policies: each of its steps, whatever happens to the    *)
(* source and the token meanwhile, is one step of the lifecycle of         *)
(* ExpansionLifecycle or none.  In particular eviction and a change of     *)
(* policy follow the exact order of access that the links carry.           *)
THEOREM LifecycleIsKept == Spec => ImplementsLifecycle
<1>1. Init => Lifecycle!Init
  <2> SUFFICES ASSUME Init PROVE Lifecycle!Init
    OBVIOUS
  <2>1. Cached(cache) = {} /\ DOMAIN transient = {} /\ DOMAIN lifecycle = {}
    BY EmptyCacheFacts DEF Init
  <2>2. \A s \in States : PhaseOf(EntryOf(s)) = "unexpanded"
    BY <2>1 DEF EntryOf, Unexpanded, Record, PhaseOf
  <2>3. LinkedOrder = << >>
    BY <2>1, EmptyOrder DEF LinkedOrder
  <2> QED BY <2>2, <2>3 DEF Init, Phases, Lifecycle!Init
<1>2. Init => LinksInv
  BY EmptyLinks DEF Init
<1>3. IInv /\ LinksInv /\ [Next]_vars => LinksInv'
  BY StepsRelink, LinksStep
<1>4. IInv /\ LinksInv /\ [Next]_vars => [Lifecycle!Next]_Lifecycle!lifecycleVars
  BY StepRefines
<1> QED BY InvHolds, <1>1, <1>2, <1>3, <1>4, PTL DEF Spec, ImplementsLifecycle, Lifecycle!Spec
=============================================================================
