---------------------- MODULE SharedStateCache_proofs ----------------------
(***************************************************************************)
(* Safety of SharedStateCache for any workers, ids, policies and heap, that*)
(* it implements ExactResidency, and that its statistics add up.           *)
(***************************************************************************)
EXTENDS SharedStateCacheRefinement, CacheStatistics, LruStorage_proofs

(* What the storage of a snapshot satisfies under its policy.              *)
StorageInv(r) ==
    /\ r.policy.kind = "Lru" => Threaded(r.storage, Ids, Workers)
    /\ r.policy.kind = "NoCache" => Residents(r.storage) = {}

(* A guarded snapshot is well formed, and it is the root if it has the     *)
(* root's address.                                                         *)
GuardInv ==
    \A w \in Workers : pc[w] \in {"swap", "clear"} =>
        /\ StorageInv(current[w])
        /\ current[w].at = root.at => current[w] = root

(* What a worker about to swap has checked of the snapshot it loaded.      *)
SwapInv ==
    \A w \in Workers : pc[w] = "swap" =>
        /\ current[w].generation = generation[w]
        /\ current[w].policy.kind # "NoCache"
        /\ ~(Holds(current[w], id[w]) /\ Touch(current[w], id[w]) = NoSlot)

(* Only a retained marker can be overtaken.                                *)
OvertakenInv == \A w \in Workers : overtaken[w] => generation[w] # NULL

CacheInv == /\ TypeOK
            /\ StorageInv(root)
            /\ GuardInv
            /\ SwapInv
            /\ OvertakenInv
            /\ MarkerIdentifiesGeneration

(* A fresh snapshot is empty and well formed.                              *)
LEMMA SnapshotIsEmpty ==
    ASSUME NEW at \in Addresses, NEW gen \in Addresses, NEW p \in Policies
    PROVE  LET r == Snapshot(at, gen, p) IN
           IsSnapshot(r) /\ StorageInv(r) /\ r.at = at /\ r.generation = gen
<1> DEFINE s == EmptyStorage(p.capacity)
           r == Snapshot(at, gen, p)
<1>1. p \in [kind : Kinds, capacity : Nat] /\ (p.kind = "Lru" => p.capacity > 0)
  BY PolicyAssumption
<1>2. /\ r.storage = s /\ r.policy = p /\ r.at = at /\ r.generation = gen
      /\ r \in [at : Addresses, generation : Addresses, policy : Policies, storage : {s}]
  BY DEF Snapshot
<1>3. s.capacity = p.capacity /\ Residents(s) = {}
  BY DEF EmptyStorage, Residents
<1>4. IsStorage(s, Ids, Workers)
  BY <1>1, EmptyIsStorage
<1>5. p.kind = "Lru" => Threaded(s, Ids, Workers)
  BY <1>1, EmptyIsThreaded
<1> HIDE DEF s, r
<1> QED BY <1>2, <1>3, <1>4, <1>5 DEF IsSnapshot, StorageInv, r

(* What publishing value v for id i makes of snapshot r.                   *)
Chosen(r, i, v) == IF Holds(r, i) THEN ValueOf(r, i) ELSE v
Successor(r, i, v, at) ==
    [r EXCEPT !.at = at,
              !.storage = Recorded(r, i, Chosen(r, i, v),
                                   IF Holds(r, i) THEN Touch(r, i) ELSE NoSlot)]

(* Recording an access keeps the storage well formed and leaves the        *)
(* canonical value resident, as an entry that needs no touch.              *)
LEMMA RecordedIsResident ==
    ASSUME NEW r, IsSnapshot(r), StorageInv(r), r.policy.kind # "NoCache",
           NEW i \in Ids, NEW v \in Workers, NEW at \in Addresses,
           ~(Holds(r, i) /\ Touch(r, i) = NoSlot)
    PROVE  LET t == Successor(r, i, v, at) IN
           /\ IsSnapshot(t) /\ StorageInv(t)
           /\ t.at = at /\ t.generation = r.generation /\ t.policy = r.policy
           /\ Chosen(r, i, v) \in Workers
           /\ Holds(t, i) /\ Touch(t, i) = NoSlot /\ ValueOf(t, i) = Chosen(r, i, v)
<1> DEFINE s == r.storage
           touch == IF Holds(r, i) THEN Touch(r, i) ELSE NoSlot
           canonical == Chosen(r, i, v)
           u == Recorded(r, i, canonical, touch)
           t == Successor(r, i, v, at)
<1>0. t = [r EXCEPT !.at = at, !.storage = u]
  BY DEF Successor
<1>1. /\ r \in [at : Addresses, generation : Addresses, policy : Policies, storage : {s}]
      /\ IsStorage(s, Ids, Workers)
      /\ s.capacity = r.policy.capacity
      /\ r.policy.kind = "CacheAll" \/ r.policy.kind = "Lru"
  BY PolicyAssumption DEF IsSnapshot, Kinds
<1>2. /\ t.storage = u /\ t.at = at /\ t.generation = r.generation /\ t.policy = r.policy
      /\ t \in [at : Addresses, generation : Addresses, policy : Policies, storage : {u}]
  <2> HIDE DEF t, u
  <2> QED BY <1>0, <1>1
<1>3. canonical \in Workers
  BY <1>1 DEF Chosen, Holds, ValueOf, IsStorage
<1>4. CASE r.policy.kind = "CacheAll"
  <2>1. ~Holds(r, i) /\ i \notin Residents(s)
    BY <1>4 DEF Holds, Touch
  <2> DEFINE e == WithEntry(s.entries, {}, i, NoSlot, canonical)
  <2>2. u = [s EXCEPT !.entries = e]
    BY <1>4 DEF Recorded
  <2>3. /\ DOMAIN e = Residents(s) \cup {i}
        /\ e[i] = [slot |-> NoSlot, value |-> canonical]
        /\ e \in [DOMAIN e -> [slot : Nat, value : Workers]]
    BY <1>1, <1>3 DEF WithEntry, IsStorage, Residents, NoSlot
  <2> HIDE DEF e, u, t, canonical, touch
  <2>4. /\ u.entries = e /\ u.links = s.links /\ u.len = s.len /\ u.capacity = s.capacity
        /\ u \in [capacity : Nat, entries : {e}, links : {s.links},
                  len : Nat, head : Nat, tail : Nat]
    BY <1>1, <2>2 DEF IsStorage
  <2>5. IsStorage(u, Ids, Workers)
    BY <1>1, <2>3, <2>4 DEF IsStorage, Residents
  <2>6. IsSnapshot(t) /\ StorageInv(t)
    BY <1>1, <1>2, <1>4, <2>4, <2>5 DEF IsSnapshot, StorageInv
  <2>7. Holds(t, i) /\ Touch(t, i) = NoSlot /\ ValueOf(t, i) = canonical
    BY <1>2, <1>4, <2>3, <2>4 DEF Holds, Touch, ValueOf, Residents
  <2> QED BY <1>2, <1>3, <2>6, <2>7 DEF t, u, canonical, touch
<1>5. CASE r.policy.kind = "Lru"
  <2>1. Threaded(s, Ids, Workers)
    BY <1>5 DEF StorageInv
  <2>2. /\ Threaded(u, Ids, Workers) /\ u.capacity = s.capacity
        /\ i \in Residents(u) /\ u.entries[i].value = canonical
        /\ u.entries[i].slot = u.tail
    <3>1. CASE Holds(r, i)
      <4>1. /\ i \in Residents(s) /\ touch = s.entries[i].slot /\ touch # NoSlot
            /\ canonical = s.entries[i].value
        BY <1>5, <3>1 DEF Chosen, Holds, Touch, TouchOf, ValueOf
      <4>2. touch \in 1..s.len
        BY <2>1, <4>1, ThreadedFacts DEF IndexCoherent
      <4>3. u = TouchSlot(s, touch)
        BY <1>5, <4>1 DEF Recorded
      <4> HIDE DEF touch, u, canonical
      <4>4. /\ u.capacity = s.capacity /\ u.entries = s.entries /\ u.tail = touch
        BY <2>1, <4>2, <4>3, ThreadedFacts, TouchKeepsInvariant
      <4>5. Threaded(u, Ids, Workers)
        BY <2>1, <4>1, <4>3, TouchIsMove
      <4> QED BY <4>1, <4>4, <4>5 DEF Residents
    <3>2. CASE ~Holds(r, i)
      <4>1. i \notin Residents(s)
        BY <1>5, <3>2 DEF Holds
      <4>2. u = InsertId(s, i, canonical)
        BY <1>5, <3>2 DEF Recorded
      <4> HIDE DEF u, canonical
      <4>3. LruInvariant(s, Ids, Workers)
        BY <2>1 DEF Threaded
      <4>4. /\ u.capacity = s.capacity
            /\ i \in Residents(u) /\ u.entries[i].value = canonical
            /\ u.entries[i].slot = u.tail
        BY <1>3, <4>1, <4>2, <4>3, InsertKeepsInvariant
      <4>5. Threaded(u, Ids, Workers)
        BY <1>3, <2>1, <4>1, <4>2, InsertIsAppend
      <4> QED BY <4>4, <4>5
    <3> QED BY <3>1, <3>2
  <2> HIDE DEF u, t, canonical, touch
  <2>3. IsStorage(u, Ids, Workers)
    BY <2>2, ThreadedFacts
  <2>4. IsSnapshot(t) /\ StorageInv(t)
    BY <1>1, <1>2, <1>5, <2>2, <2>3 DEF IsSnapshot, StorageInv
  <2>5. Holds(t, i) /\ Touch(t, i) = NoSlot /\ ValueOf(t, i) = canonical
    BY <1>2, <1>5, <2>2 DEF Holds, Touch, TouchOf, ValueOf, Residents
  <2> QED BY <1>2, <1>3, <2>4, <2>5 DEF t, u, canonical, touch
<1> QED BY <1>1, <1>4, <1>5

LEMMA InitEstablishesCacheInv == Init => CacheInv
<1> SUFFICES ASSUME Init PROVE CacheInv
  OBVIOUS
<1>1. PICK at \in Addresses, gen \in Addresses, p \in Policies : root = Snapshot(at, gen, p)
  BY DEF Init
<1>2. IsSnapshot(root) /\ StorageInv(root)
  BY <1>1, SnapshotIsEmpty
<1>3. << >> \in Seq(CounterNames) /\ 0 \in 0..CounterMax
  BY CounterAssumption
<1> QED BY <1>2, <1>3, NullAssumption
        DEF Init, CacheInv, TypeOK, GuardInv, SwapInv, OvertakenInv,
            MarkerIdentifiesGeneration, Labels

(* Every list of owed increments names counters.                           *)
LEMMA CountsAreCounters ==
    ASSUME NEW w \in Workers
    PROVE  PublicationCounts(w) \in Seq(CounterNames)
<1>1. /\ << >> \in Seq(CounterNames) /\ <<"insertions">> \in Seq(CounterNames)
      /\ <<"evictions">> \in Seq(CounterNames)
      /\ <<"raced_publications">> \in Seq(CounterNames)
  BY DEF CounterNames
<1>2. \A a, b \in Seq(CounterNames) : a \o b \in Seq(CounterNames)
  OBVIOUS
<1> QED BY <1>1, <1>2 DEF PublicationCounts

(* A value or a hit read from a well-formed snapshot.                      *)
LEMMA HitIsWorker ==
    ASSUME NEW r, IsSnapshot(r), NEW i, Holds(r, i)
    PROVE  ValueOf(r, i) \in Workers
  BY DEF IsSnapshot, IsStorage, Holds, ValueOf, Residents

(* Leaving the protocol with an answer, without touching the root.         *)
LEMMA AnswerKeepsCacheInv ==
    ASSUME CacheInv, NEW w \in Workers, NEW v \in Workers \cup {NULL}, Answer(w, v),
           root' = root, counters' = counters,
           NEW list \in Seq(CounterNames), Owe(w, list),
           NEW i \in Ids \cup {NULL}, id' = [id EXCEPT ![w] = i]
    PROVE  CacheInv'
<1> USE DEF Answer, Release, Goto
<1>1. TypeOK'
  BY NullAssumption DEF Owe, CacheInv, TypeOK, Labels
<1>2. StorageInv(root)'
  BY DEF CacheInv, StorageInv
<1>3. GuardInv'
  BY DEF CacheInv, TypeOK, GuardInv
<1>4. SwapInv'
  BY DEF CacheInv, TypeOK, SwapInv
<1>5. OvertakenInv' /\ MarkerIdentifiesGeneration'
  BY DEF CacheInv, TypeOK, OvertakenInv, MarkerIdentifiesGeneration
<1> QED BY <1>1, <1>2, <1>3, <1>4, <1>5 DEF CacheInv

LEMMA NamedCounters ==
    /\ << >> \in Seq(CounterNames)
    /\ \A c \in CounterNames : <<c>> \in Seq(CounterNames)
  OBVIOUS

LEMMA AnsweringKeepsCacheInv ==
    ASSUME CacheInv, NEW w \in Workers,
           \/ \E i \in Ids : HitInPlace(w, i)
           \/ Fault(w) \/ Uncacheable(w) \/ Bypass(w) \/ PublishStale(w) \/ PublishNothing(w)
    PROVE  CacheInv'
<1>1. /\ id[w] \in Ids \cup {NULL} /\ id = [id EXCEPT ![w] = id[w]]
      /\ owed[w] \in Seq(CounterNames) /\ owed = [owed EXCEPT ![w] = owed[w]]
      /\ w \in Workers \cup {NULL} /\ value[w] \in Workers \cup {NULL}
  BY DEF CacheInv, TypeOK
<1>2. {"hits", "faults", "uncacheable_results", "raced_publications"} \subseteq CounterNames
  BY DEF CounterNames
<1>3. \A j : Holds(root, j) => ValueOf(root, j) \in Workers \cup {NULL}
  BY HitIsWorker DEF CacheInv, TypeOK
<1>4. ASSUME NEW i \in Ids, HitInPlace(w, i) PROVE CacheInv'
  BY <1>2, <1>3, <1>4, NamedCounters, AnswerKeepsCacheInv DEF HitInPlace
<1>5. CASE Fault(w)
  BY <1>1, <1>2, <1>5, NamedCounters, AnswerKeepsCacheInv DEF Fault
<1>6. CASE Uncacheable(w)
  BY <1>1, <1>2, <1>6, NamedCounters, AnswerKeepsCacheInv DEF Uncacheable
<1>7. CASE Bypass(w)
  BY <1>1, <1>7, AnswerKeepsCacheInv DEF Bypass, Owe
<1>8. CASE PublishStale(w)
  BY <1>1, <1>8, AnswerKeepsCacheInv DEF PublishStale, Owe
<1>9. CASE PublishNothing(w)
  BY <1>1, <1>2, <1>3, <1>9, NamedCounters, AnswerKeepsCacheInv DEF PublishNothing
<1> QED BY <1>4, <1>5, <1>6, <1>7, <1>8, <1>9

LEMMA HitToTouchKeepsCacheInv ==
    ASSUME CacheInv, NEW w \in Workers, NEW i \in Ids,
           HitToTouch(w, i)
    PROVE  CacheInv'
<1>a. /\ ValueOf(root, i) \in Workers
      /\ root.generation \in Addresses /\ root.generation # NULL
      /\ <<"hits">> \in Seq(CounterNames)
  <2>1. IsSnapshot(root) /\ Holds(root, i)
    BY DEF HitToTouch, CacheInv, TypeOK
  <2>2. ValueOf(root, i) \in Workers
    BY <2>1, HitIsWorker
  <2> QED BY <2>1, <2>2, NullAssumption DEF IsSnapshot, CounterNames
<1>1. TypeOK'
  <2>1. pc[w] = "idle" /\ TypeOK
    BY DEF HitToTouch, At, CacheInv
  <2>2. /\ pc' \in [Workers -> Labels] /\ id' \in [Workers -> Ids \cup {NULL}]
        /\ value' \in [Workers -> Workers \cup {NULL}]
        /\ generation' \in [Workers -> Addresses \cup {NULL}]
        /\ owed' \in [Workers -> Seq(CounterNames)]
    BY <1>a, <2>1 DEF HitToTouch, Goto, Owe, TypeOK, Labels
  <2>3. /\ pc' = [pc EXCEPT ![w] = "publish"] /\ id' = [id EXCEPT ![w] = i]
        /\ value' = [value EXCEPT ![w] = ValueOf(root, i)]
        /\ generation' = [generation EXCEPT ![w] = root.generation]
        /\ UNCHANGED <<root, cold, current, counters, overtaken>>
    BY DEF HitToTouch, Goto
  <2>4. \A u \in Workers :
          /\ pc'[u] \in {"swap", "clear"} => IsSnapshot(current'[u])
          /\ pc'[u] \notin {"swap", "clear"} => current'[u] = NULL
          /\ pc'[u] \in {"compute", "publish", "swap"} => id'[u] \in Ids
          /\ pc'[u] \in {"publish", "swap"} => value'[u] \in Workers /\ generation'[u] # NULL
          /\ pc'[u] \notin {"compute", "publish", "swap"} => generation'[u] = NULL
    <3>1. \A u \in Workers : u # w => /\ pc'[u] = pc[u] /\ id'[u] = id[u]
                                    /\ value'[u] = value[u]
                                    /\ generation'[u] = generation[u]
      BY ONLY <2>1, <2>3 DEF TypeOK
    <3>2. /\ pc'[w] = "publish" /\ id'[w] = i /\ value'[w] \in Workers
          /\ generation'[w] # NULL
      BY ONLY <1>a, <2>1, <2>3 DEF TypeOK
    <3>3. /\ \A u \in Workers : pc[u] \in Labels
          /\ current[w] = NULL /\ current' = current
      BY <2>1, <2>3 DEF TypeOK
    <3>4. TAKE u \in Workers
    <3>5. CASE u = w
      BY ONLY <3>2, <3>3, <3>5, i \in Ids
    <3>6. CASE u # w
      BY ONLY <2>1, <3>1, <3>3, <3>6, u \in Workers DEF TypeOK
    <3> QED BY ONLY <3>5, <3>6
  <2>5. /\ IsSnapshot(root') /\ cold' \in [Workers -> BOOLEAN]
        /\ overtaken' \in [Workers -> BOOLEAN]
        /\ counters' \in [CounterNames -> 0..CounterMax]
        /\ current' \in [Workers -> {current'[u] : u \in Workers}]
    BY ONLY <2>1, <2>3 DEF TypeOK
  <2> QED BY ONLY <2>2, <2>4, <2>5 DEF TypeOK
<1>2. StorageInv(root)'
  BY DEF HitToTouch, CacheInv, StorageInv
<1>3. GuardInv'
  BY DEF HitToTouch, At, Goto, Owe, CacheInv, TypeOK, GuardInv
<1>4. SwapInv'
  BY DEF HitToTouch, At, Goto, Owe, CacheInv, TypeOK, SwapInv
<1>5. OvertakenInv' /\ MarkerIdentifiesGeneration'
  BY <1>a, NullAssumption DEF HitToTouch, At, Goto, Owe, CacheInv, TypeOK, OvertakenInv,
     MarkerIdentifiesGeneration
<1> QED BY <1>1, <1>2, <1>3, <1>4, <1>5 DEF CacheInv

LEMMA MissKeepsCacheInv ==
    ASSUME CacheInv, NEW w \in Workers, NEW i \in Ids,
           Miss(w, i)
    PROVE  CacheInv'
<1>a. /\ root.generation \in Addresses /\ root.generation # NULL
      /\ <<"misses">> \in Seq(CounterNames)
  BY NullAssumption DEF CacheInv, TypeOK, IsSnapshot, CounterNames
<1>1. TypeOK'
  BY <1>a, NullAssumption DEF Miss, At, Goto, Owe, CacheInv, TypeOK, Labels
<1>2. StorageInv(root)'
  BY DEF Miss, CacheInv, StorageInv
<1>3. GuardInv'
  BY DEF Miss, At, Goto, Owe, CacheInv, TypeOK, GuardInv
<1>4. SwapInv'
  BY DEF Miss, At, Goto, Owe, CacheInv, TypeOK, SwapInv
<1>5. OvertakenInv' /\ MarkerIdentifiesGeneration'
  BY <1>a, NullAssumption DEF Miss, At, Goto, Owe, CacheInv, TypeOK, OvertakenInv,
     MarkerIdentifiesGeneration
<1> QED BY <1>1, <1>2, <1>3, <1>4, <1>5 DEF CacheInv

LEMMA ComputedKeepsCacheInv ==
    ASSUME CacheInv, NEW w \in Workers, Computed(w)
    PROVE  CacheInv'
<1>1. TypeOK'
  BY NullAssumption DEF Computed, At, Goto, CacheInv, TypeOK, Labels
<1>2. StorageInv(root)'
  BY DEF Computed, CacheInv, StorageInv
<1>3. GuardInv'
  BY DEF Computed, At, Goto, CacheInv, TypeOK, GuardInv
<1>4. SwapInv'
  BY DEF Computed, At, Goto, CacheInv, TypeOK, SwapInv
<1>5. OvertakenInv' /\ MarkerIdentifiesGeneration'
  BY NullAssumption DEF Computed, At, Goto, CacheInv, TypeOK, OvertakenInv,
     MarkerIdentifiesGeneration
<1> QED BY <1>1, <1>2, <1>3, <1>4, <1>5 DEF CacheInv

LEMMA UnwindKeepsCacheInv ==
    ASSUME CacheInv, NEW w \in Workers, Unwind(w)
    PROVE  CacheInv'
<1>1. TypeOK'
  BY NullAssumption DEF Unwind, At, Goto, Release, CacheInv, TypeOK, Labels
<1>2. StorageInv(root)'
  BY DEF Unwind, CacheInv, StorageInv
<1>3. GuardInv'
  BY DEF Unwind, At, Goto, Release, CacheInv, TypeOK, GuardInv
<1>4. SwapInv'
  BY DEF Unwind, At, Goto, Release, CacheInv, TypeOK, SwapInv
<1>5. OvertakenInv' /\ MarkerIdentifiesGeneration'
  BY NullAssumption DEF Unwind, At, Goto, Release, CacheInv, TypeOK, OvertakenInv,
     MarkerIdentifiesGeneration
<1> QED BY <1>1, <1>2, <1>3, <1>4, <1>5 DEF CacheInv

LEMMA StageKeepsCacheInv ==
    ASSUME CacheInv, NEW w \in Workers, Stage(w)
    PROVE  CacheInv'
<1>1. TypeOK'
  BY NullAssumption DEF Stage, At, Goto, CacheInv, TypeOK, Labels
<1>2. StorageInv(root)'
  BY DEF Stage, CacheInv, StorageInv
<1>3. GuardInv'
  BY DEF Stage, At, Goto, CacheInv, TypeOK, GuardInv
<1>4. SwapInv'
  BY DEF Stage, At, Goto, CacheInv, TypeOK, SwapInv
<1>5. OvertakenInv' /\ MarkerIdentifiesGeneration'
  BY NullAssumption DEF Stage, At, Goto, CacheInv, TypeOK, OvertakenInv,
     MarkerIdentifiesGeneration
<1> QED BY <1>1, <1>2, <1>3, <1>4, <1>5 DEF CacheInv

LEMMA RetryKeepsCacheInv ==
    ASSUME CacheInv, NEW w \in Workers, Retry(w)
    PROVE  CacheInv'
<1>1. TypeOK'
  BY NullAssumption DEF Retry, At, Goto, CacheInv, TypeOK, Labels
<1>2. StorageInv(root)'
  BY DEF Retry, CacheInv, StorageInv
<1>3. GuardInv'
  BY DEF Retry, At, Goto, CacheInv, TypeOK, GuardInv
<1>4. SwapInv'
  BY DEF Retry, At, Goto, CacheInv, TypeOK, SwapInv
<1>5. OvertakenInv' /\ MarkerIdentifiesGeneration'
  BY NullAssumption DEF Retry, At, Goto, CacheInv, TypeOK, OvertakenInv,
     MarkerIdentifiesGeneration
<1> QED BY <1>1, <1>2, <1>3, <1>4, <1>5 DEF CacheInv

LEMMA ClearLoadKeepsCacheInv ==
    ASSUME CacheInv, NEW w \in Workers, ClearLoad(w)
    PROVE  CacheInv'
<1>1. TypeOK'
  BY NullAssumption DEF ClearLoad, At, Goto, CacheInv, TypeOK, Labels
<1>2. StorageInv(root)'
  BY DEF ClearLoad, CacheInv, StorageInv
<1>3. GuardInv'
  BY DEF ClearLoad, At, Goto, CacheInv, TypeOK, GuardInv
<1>4. SwapInv'
  BY DEF ClearLoad, At, Goto, CacheInv, TypeOK, SwapInv
<1>5. OvertakenInv' /\ MarkerIdentifiesGeneration'
  BY NullAssumption DEF ClearLoad, At, Goto, CacheInv, TypeOK, OvertakenInv,
     MarkerIdentifiesGeneration
<1> QED BY <1>1, <1>2, <1>3, <1>4, <1>5 DEF CacheInv

LEMMA ClearRetryKeepsCacheInv ==
    ASSUME CacheInv, NEW w \in Workers, ClearRetry(w)
    PROVE  CacheInv'
<1>1. TypeOK'
  BY NullAssumption DEF ClearRetry, At, Goto, CacheInv, TypeOK, Labels
<1>2. StorageInv(root)'
  BY DEF ClearRetry, CacheInv, StorageInv
<1>3. GuardInv'
  BY DEF ClearRetry, At, Goto, CacheInv, TypeOK, GuardInv
<1>4. SwapInv'
  BY DEF ClearRetry, At, Goto, CacheInv, TypeOK, SwapInv
<1>5. OvertakenInv' /\ MarkerIdentifiesGeneration'
  BY NullAssumption DEF ClearRetry, At, Goto, CacheInv, TypeOK, OvertakenInv,
     MarkerIdentifiesGeneration
<1> QED BY <1>1, <1>2, <1>3, <1>4, <1>5 DEF CacheInv

LEMMA ReturnKeepsCacheInv ==
    ASSUME CacheInv, NEW w \in Workers, Return(w)
    PROVE  CacheInv'
<1>1. TypeOK'
  <2>1. /\ TypeOK /\ pc[w] \in {"return", "cleared"}
        /\ pc' = [pc EXCEPT ![w] = "idle"] /\ id' = [id EXCEPT ![w] = NULL]
        /\ value' = [value EXCEPT ![w] = NULL]
        /\ UNCHANGED <<root, generation, cold, current, owed, counters, overtaken>>
    BY DEF Return, At, Goto, CacheInv
  <2>2. /\ pc' \in [Workers -> Labels] /\ id' \in [Workers -> Ids \cup {NULL}]
        /\ value' \in [Workers -> Workers \cup {NULL}]
    BY ONLY <2>1 DEF TypeOK, Labels
  <2>3. /\ pc'[w] = "idle" /\ current'[w] = NULL /\ generation'[w] = NULL
        /\ \A u \in Workers : /\ current'[u] = current[u] /\ generation'[u] = generation[u]
                             /\ u # w => pc'[u] = pc[u] /\ id'[u] = id[u] /\ value'[u] = value[u]
    BY ONLY <2>1, w \in Workers DEF TypeOK
  <2>4. \A u \in Workers :
          /\ pc'[u] \in {"swap", "clear"} => IsSnapshot(current'[u])
          /\ pc'[u] \notin {"swap", "clear"} => current'[u] = NULL
          /\ pc'[u] \in {"compute", "publish", "swap"} => id'[u] \in Ids
          /\ pc'[u] \in {"publish", "swap"} => value'[u] \in Workers /\ generation'[u] # NULL
          /\ pc'[u] \notin {"compute", "publish", "swap"} => generation'[u] = NULL
    <3>1. TAKE u \in Workers
    <3>2. CASE u = w
      BY ONLY <2>3, <3>2
    <3>3. CASE u # w
      BY ONLY <2>1, <2>3, <3>3, u \in Workers DEF TypeOK
    <3> QED BY ONLY <3>2, <3>3
  <2>5. /\ IsSnapshot(root') /\ owed' \in [Workers -> Seq(CounterNames)]
        /\ generation' \in [Workers -> Addresses \cup {NULL}]
        /\ cold' \in [Workers -> BOOLEAN] /\ overtaken' \in [Workers -> BOOLEAN]
        /\ counters' \in [CounterNames -> 0..CounterMax]
        /\ current' \in [Workers -> {current'[u] : u \in Workers}]
    BY ONLY <2>1 DEF TypeOK
  <2> QED BY ONLY <2>2, <2>4, <2>5 DEF TypeOK
<1>2. StorageInv(root)'
  BY DEF Return, CacheInv, StorageInv
<1>3. GuardInv'
  BY DEF Return, At, Goto, CacheInv, TypeOK, GuardInv
<1>4. SwapInv'
  BY DEF Return, At, Goto, CacheInv, TypeOK, SwapInv
<1>5. OvertakenInv' /\ MarkerIdentifiesGeneration'
  BY NullAssumption DEF Return, At, Goto, CacheInv, TypeOK, OvertakenInv,
     MarkerIdentifiesGeneration
<1> QED BY <1>1, <1>2, <1>3, <1>4, <1>5 DEF CacheInv

LEMMA CountKeepsCacheInv ==
    ASSUME CacheInv, NEW w \in Workers, Count(w)
    PROVE  CacheInv'
<1>a. Head(owed[w]) \in CounterNames /\ Tail(owed[w]) \in Seq(CounterNames)
  BY DEF Count, CacheInv, TypeOK
<1>1. TypeOK'
  <2>1. TypeOK /\ UNCHANGED <<root, pc, id, value, generation, cold, current, overtaken>>
    BY DEF Count, CacheInv
  <2>2. counters' \in [CounterNames -> 0..CounterMax]
    <3>1. counters \in [CounterNames -> 0..CounterMax]
      BY <2>1 DEF TypeOK
    <3>2. counters' = [counters EXCEPT ![Head(owed[w])] = IF @ < CounterMax THEN @ + 1 ELSE @]
      BY DEF Count
    <3> QED BY ONLY <1>a, <3>1, <3>2, CounterAssumption
  <2>3. owed' \in [Workers -> Seq(CounterNames)]
    BY ONLY <1>a, <2>1, Count(w), w \in Workers DEF Count, Owe, TypeOK
  <2>4. \A u \in Workers :
          /\ pc'[u] \in {"swap", "clear"} => IsSnapshot(current'[u])
          /\ pc'[u] \notin {"swap", "clear"} => current'[u] = NULL
          /\ pc'[u] \in {"compute", "publish", "swap"} => id'[u] \in Ids
          /\ pc'[u] \in {"publish", "swap"} => value'[u] \in Workers /\ generation'[u] # NULL
          /\ pc'[u] \notin {"compute", "publish", "swap"} => generation'[u] = NULL
    BY ONLY <2>1 DEF TypeOK
  <2>5. /\ IsSnapshot(root') /\ pc' \in [Workers -> Labels]
        /\ id' \in [Workers -> Ids \cup {NULL}]
        /\ value' \in [Workers -> Workers \cup {NULL}]
        /\ generation' \in [Workers -> Addresses \cup {NULL}]
        /\ cold' \in [Workers -> BOOLEAN] /\ overtaken' \in [Workers -> BOOLEAN]
        /\ current' \in [Workers -> {current'[u] : u \in Workers}]
    BY ONLY <2>1 DEF TypeOK
  <2> QED BY ONLY <2>2, <2>3, <2>4, <2>5 DEF TypeOK
<1>2. StorageInv(root)'
  BY DEF Count, CacheInv, StorageInv
<1>3. GuardInv'
  BY DEF Count, Owe, CacheInv, TypeOK, GuardInv
<1>4. SwapInv'
  BY DEF Count, Owe, CacheInv, TypeOK, SwapInv
<1>5. OvertakenInv' /\ MarkerIdentifiesGeneration'
  BY <1>a, CounterAssumption, NullAssumption DEF Count, Owe, CacheInv, TypeOK, OvertakenInv,
     MarkerIdentifiesGeneration
<1> QED BY <1>1, <1>2, <1>3, <1>4, <1>5 DEF CacheInv


(* A successful swap: the guarded snapshot is the root, and its successor  *)
(* sits at an address no other guard names.                                *)
LEMMA PublishFacts ==
    ASSUME CacheInv, NEW w \in Workers, Publish(w)
    PROVE  /\ current[w] = root /\ root.generation = generation[w]
           /\ IsSnapshot(root') /\ StorageInv(root')
           /\ root'.generation = root.generation
           /\ root'.at \in Addresses \ HeldRoots
           /\ Canonical(w) \in Workers /\ value'[w] = Canonical(w)
           /\ Holds(root', id[w]) /\ Touch(root', id[w]) = NoSlot
           /\ ValueOf(root', id[w]) = Canonical(w)
<1> DEFINE r == current[w]
           i == id[w]
           v == value[w]
<1>1. PICK at \in Addresses \ HeldRoots :
         root' = [r EXCEPT !.at = at, !.storage = Staged(w)]
  BY DEF Publish
<1>2. /\ pc[w] = "swap" /\ root.at = r.at
      /\ value' = [value EXCEPT ![w] = Canonical(w)]
  BY DEF Publish, At, CasSucceeds, Answer
<1>3. /\ IsSnapshot(r) /\ StorageInv(r) /\ r.policy.kind # "NoCache"
      /\ r = root /\ r.generation = generation[w]
      /\ i \in Ids /\ v \in Workers
      /\ ~(Holds(r, i) /\ Touch(r, i) = NoSlot)
  BY <1>2 DEF CacheInv, TypeOK, GuardInv, SwapInv
<1>4. Canonical(w) = Chosen(r, i, v)
  BY DEF Canonical, Chosen
<1>5. root' = Successor(r, i, v, at)
  BY <1>1, <1>4 DEF Successor, Staged
<1>6. value'[w] = Canonical(w)
  BY <1>2 DEF CacheInv, TypeOK
<1> DEFINE t == Successor(r, i, v, at)
<1>7. /\ IsSnapshot(t) /\ StorageInv(t)
      /\ t.at = at /\ t.generation = r.generation
      /\ Chosen(r, i, v) \in Workers
      /\ Holds(t, i) /\ Touch(t, i) = NoSlot /\ ValueOf(t, i) = Chosen(r, i, v)
  <2> HIDE DEF r, i, v
  <2>1. at \in Addresses
    BY <1>1
  <2> QED BY <1>3, <2>1, RecordedIsResident
<1> HIDE DEF t
<1> QED BY <1>1, <1>3, <1>4, <1>5, <1>6, <1>7 DEF t

LEMMA PublishKeepsCacheInv ==
    ASSUME CacheInv, NEW w \in Workers, Publish(w)
    PROVE  CacheInv'
<1>1. /\ root.generation = generation[w]
      /\ IsSnapshot(root') /\ StorageInv(root')
      /\ root'.generation = root.generation
      /\ root'.at \notin HeldRoots
      /\ Canonical(w) \in Workers
  BY PublishFacts
<1>2. PublicationCounts(w) \in Seq(CounterNames)
  BY CountsAreCounters
<1>3. TypeOK'
  BY <1>1, <1>2, NullAssumption
     DEF Publish, At, Goto, Owe, Answer, Release, CacheInv, TypeOK, Labels
<1>4. StorageInv(root)'
  BY <1>1
<1>5. GuardInv'
  <2>1. ASSUME NEW x \in Workers, pc'[x] \in {"swap", "clear"}
        PROVE  /\ StorageInv(current'[x])
               /\ current'[x].at # root'.at
    <3>1. x # w /\ pc'[x] = pc[x] /\ current'[x] = current[x]
      BY <2>1 DEF Publish, Goto, Answer, Release, CacheInv, TypeOK
    <3>3. current[x].at \in HeldRoots
      BY <2>1, <3>1 DEF HeldRoots, Guarding
    <3> QED BY <1>1, <2>1, <3>1, <3>3 DEF CacheInv, GuardInv
  <2> QED BY <2>1 DEF GuardInv
<1>6. SwapInv'
  BY DEF Publish, At, Goto, Answer, Release, CacheInv, TypeOK, SwapInv
<1>7. OvertakenInv' /\ MarkerIdentifiesGeneration'
  BY <1>1 DEF Publish, At, Goto, Answer, Release, CacheInv, TypeOK, OvertakenInv,
              MarkerIdentifiesGeneration
<1> QED BY <1>3, <1>4, <1>5, <1>6, <1>7 DEF CacheInv

(* A new generation: its root and its marker are at addresses nobody holds. *)
LEMMA ReplacementFacts ==
    ASSUME CacheInv, NEW p \in Policies, Replacement(p)
    PROVE  /\ IsSnapshot(root') /\ StorageInv(root')
           /\ root'.at \notin HeldRoots
           /\ root'.generation \notin HeldGenerations
           /\ overtaken' = [w \in Workers |-> overtaken[w] \/ generation[w] # NULL]
<1>1. PICK at \in Addresses \ HeldRoots, gen \in Addresses \ HeldGenerations :
         root' = Snapshot(at, gen, p)
  BY DEF Replacement
<1>2. at \in Addresses /\ gen \in Addresses
  BY <1>1
<1>3. overtaken' = [w \in Workers |-> overtaken[w] \/ generation[w] # NULL]
  BY DEF Replacement
<1> QED BY <1>1, <1>2, <1>3, SnapshotIsEmpty

(* Clear and SetPolicy differ only in what the worker held before.         *)
LEMMA FlushKeepsCacheInv ==
    ASSUME CacheInv, NEW w \in Workers, NEW p \in Policies, Replacement(p),
           pc[w] \in {"idle", "clear"},
           current' = [current EXCEPT ![w] = NULL],
           Owe(w, <<"clears">>), Goto(w, "cleared"),
           UNCHANGED <<id, value, generation, cold, counters>>
    PROVE  CacheInv'
<1>1. /\ IsSnapshot(root') /\ StorageInv(root')
      /\ root'.at \notin HeldRoots
      /\ root'.generation \notin HeldGenerations
      /\ overtaken' = [x \in Workers |-> overtaken[x] \/ generation[x] # NULL]
  BY ReplacementFacts
<1>2. <<"clears">> \in Seq(CounterNames)
  BY DEF CounterNames
<1>3. TypeOK'
  BY <1>1, <1>2, NullAssumption DEF Goto, Owe, CacheInv, TypeOK, Labels
<1>4. StorageInv(root)'
  BY <1>1
<1>5. GuardInv'
  <2>1. ASSUME NEW x \in Workers, pc'[x] \in {"swap", "clear"}
        PROVE  StorageInv(current'[x]) /\ current'[x].at # root'.at
    <3>1. x # w /\ pc'[x] = pc[x] /\ current'[x] = current[x]
      BY <2>1 DEF Goto, CacheInv, TypeOK
    <3>2. current[x].at \in HeldRoots
      BY <2>1, <3>1 DEF HeldRoots, Guarding
    <3> QED BY <1>1, <2>1, <3>1, <3>2 DEF CacheInv, GuardInv
  <2> QED BY <2>1 DEF GuardInv
<1>6. SwapInv'
  BY DEF Goto, CacheInv, TypeOK, SwapInv
<1>7. \A x \in Workers : generation[x] \in HeldGenerations
  BY DEF HeldGenerations
<1>8. OvertakenInv' /\ MarkerIdentifiesGeneration'
  BY <1>1, <1>7 DEF CacheInv, TypeOK, OvertakenInv, MarkerIdentifiesGeneration
<1> QED BY <1>3, <1>4, <1>5, <1>6, <1>8 DEF CacheInv

LEMMA ClearKeepsCacheInv ==
    ASSUME CacheInv, NEW w \in Workers, Clear(w)
    PROVE  CacheInv'
<1>1. pc[w] = "clear" /\ IsSnapshot(current[w])
  BY DEF Clear, At, CacheInv, TypeOK
<1>2. current[w].policy \in Policies
  BY <1>1 DEF IsSnapshot
<1> QED BY <1>1, <1>2, FlushKeepsCacheInv DEF Clear

LEMMA SetPolicyKeepsCacheInv ==
    ASSUME CacheInv, NEW w \in Workers, NEW p \in Policies, SetPolicy(w, p)
    PROVE  CacheInv'
<1>1. pc[w] = "idle" /\ current' = [current EXCEPT ![w] = NULL]
  BY DEF SetPolicy, At, CacheInv, TypeOK
<1> QED BY <1>1, FlushKeepsCacheInv DEF SetPolicy

LEMMA NextKeepsCacheInv == CacheInv /\ [Next]_vars => CacheInv'
<1> SUFFICES ASSUME CacheInv, [Next]_vars PROVE CacheInv'
  OBVIOUS
<1>1. CASE UNCHANGED vars
  <2>1. TypeOK' /\ StorageInv(root)'
    BY <1>1 DEF vars, CacheInv, TypeOK
  <2>2. GuardInv' /\ OvertakenInv' /\ MarkerIdentifiesGeneration'
    BY <1>1 DEF vars, CacheInv, GuardInv, OvertakenInv, MarkerIdentifiesGeneration
  <2>3. SwapInv'
    BY <1>1 DEF vars, CacheInv, SwapInv
  <2> QED BY <2>1, <2>2, <2>3 DEF CacheInv
<1>2. ASSUME NEW w \in Workers, Start(w) PROVE CacheInv'
  BY <1>2, AnsweringKeepsCacheInv, HitToTouchKeepsCacheInv, MissKeepsCacheInv,
     ClearLoadKeepsCacheInv, SetPolicyKeepsCacheInv DEF Start
<1>3. ASSUME NEW w \in Workers, Continue(w) PROVE CacheInv'
  BY <1>3, AnsweringKeepsCacheInv, ComputedKeepsCacheInv, UnwindKeepsCacheInv,
     StageKeepsCacheInv, PublishKeepsCacheInv, RetryKeepsCacheInv, ClearKeepsCacheInv,
     ClearRetryKeepsCacheInv, CountKeepsCacheInv, ReturnKeepsCacheInv DEF Continue
<1> QED BY <1>1, <1>2, <1>3 DEF Next

(* The inductive invariant holds of every execution.                       *)
THEOREM CacheInvariant == Spec => []CacheInv
<1>1. CacheInv /\ [Next]_vars => CacheInv'
  BY NextKeepsCacheInv
<1> QED BY InitEstablishesCacheInv, <1>1, PTL DEF Spec

(* Types, for any number of workers, ids, policies and addresses.          *)
THEOREM TypeCorrectness == Spec => []TypeOK
<1>1. CacheInv => TypeOK
  BY DEF CacheInv
<1> QED BY CacheInvariant, <1>1, PTL

(* Comparing recycled addresses decides exactly whether a flush came       *)
(* between (publish's Arc::ptr_eq on the retained generation).             *)
THEOREM MarkersAreSound == Spec => []MarkerIdentifiesGeneration
<1>1. CacheInv => MarkerIdentifiesGeneration
  BY DEF CacheInv
<1> QED BY CacheInvariant, <1>1, PTL

(* The published Lru storage passes checked_order in every state: the walk *)
(* along the links visits every slot once, between publications as well.   *)
THEOREM RecencyIndexIsCoherent == Spec => []RecencyIndexCoherent
<1>1. CacheInv => RecencyIndexCoherent
  BY ThreadedIsChecked DEF CacheInv, StorageInv, RecencyIndexCoherent
<1> QED BY CacheInvariant, <1>1, PTL

(* The published Lru storage never exceeds its capacity, and its index and *)
(* links agree.                                                            *)
PublishedStorageSound ==
    root.policy.kind = "Lru" =>
        /\ Cardinality(Residents(root.storage)) <= root.policy.capacity
        /\ IndexCoherent(root.storage)
        /\ LinksCoherent(root.storage)

THEOREM CapacityIsRespected == Spec => []PublishedStorageSound
<1>1. CacheInv => PublishedStorageSound
  <2> SUFFICES ASSUME CacheInv, root.policy.kind = "Lru"
               PROVE  /\ Cardinality(Residents(root.storage)) <= root.policy.capacity
                      /\ IndexCoherent(root.storage)
                      /\ LinksCoherent(root.storage)
    BY DEF PublishedStorageSound
  <2>1. /\ IsStorage(root.storage, Ids, Workers)
        /\ root.storage.capacity = root.policy.capacity
        /\ root.storage.len <= root.storage.capacity
        /\ IndexCoherent(root.storage) /\ LinksCoherent(root.storage)
    BY DEF CacheInv, StorageInv, Threaded, LruInvariant, TypeOK, IsSnapshot
  <2>2. Cardinality(Residents(root.storage)) = root.storage.len
    BY <2>1, ResidentCount
  <2> QED BY <2>1, <2>2
<1> QED BY CacheInvariant, <1>1, PTL

-----------------------------------------------------------------------------
(* What replaces the root: a publication, or a flush with a new marker.    *)
LEMMA RootStep ==
    ASSUME CacheInv, NEW w \in Workers, Start(w) \/ Continue(w)
    PROVE  \/ root' = root
           \/ Publish(w)
           \/ root'.generation \notin HeldGenerations
<1>1. ASSUME NEW i \in Ids, HitInPlace(w, i) \/ HitToTouch(w, i) \/ Miss(w, i)
      PROVE  root' = root
  BY <1>1 DEF HitInPlace, HitToTouch, Miss
<1>2. ASSUME NEW p \in Policies, SetPolicy(w, p)
      PROVE  root'.generation \notin HeldGenerations
  BY <1>2, ReplacementFacts DEF SetPolicy
<1>3. CASE Clear(w)
  <2>1. IsSnapshot(current[w]) /\ Replacement(current[w].policy)
    BY <1>3 DEF Clear, At, CacheInv, TypeOK
  <2>2. current[w].policy \in Policies
    BY <2>1 DEF IsSnapshot
  <2> QED BY <2>1, <2>2, ReplacementFacts
<1>4. CASE \/ ClearLoad(w) \/ ClearRetry(w) \/ Fault(w) \/ Uncacheable(w) \/ Bypass(w)
           \/ Computed(w) \/ Unwind(w) \/ PublishStale(w) \/ PublishNothing(w)
           \/ Stage(w) \/ Retry(w) \/ Count(w) \/ Return(w)
  BY <1>4 DEF ClearLoad, ClearRetry, Fault, Uncacheable, Bypass, Computed, Unwind,
              PublishStale, PublishNothing, Stage, Retry, Count, Return
<1> QED BY <1>1, <1>2, <1>3, <1>4 DEF Start, Continue

(* What was computed before a flush is never admitted after it.            *)
THEOREM NothingStaleIsAdmitted == Spec => NoStaleAdmission
<1>1. ASSUME CacheInv, [Next]_vars
      PROVE  [root.generation = root'.generation /\ root.storage # root'.storage
                => \E w \in Workers : /\ pc[w] = "swap" /\ pc'[w] = "return"
                                      /\ ~overtaken[w]]_vars
  <2>1. SUFFICES ASSUME Next, root.generation = root'.generation, root' # root
                 PROVE  \E w \in Workers : /\ pc[w] = "swap" /\ pc'[w] = "return"
                                           /\ ~overtaken[w]
    BY <1>1
  <2>2. PICK w \in Workers : Start(w) \/ Continue(w)
    BY <2>1 DEF Next
  <2>3. root.generation \in HeldGenerations
    BY DEF HeldGenerations
  <2>4. Publish(w)
    BY <1>1, <2>1, <2>2, <2>3, RootStep
  <2>5. pc[w] = "swap" /\ pc'[w] = "return"
    BY <1>1, <2>4 DEF Publish, At, Answer, Goto, CacheInv, TypeOK
  <2>6. root.generation = generation[w] /\ generation[w] # NULL
    BY <1>1, <2>4, <2>5, PublishFacts DEF CacheInv, TypeOK
  <2>7. ~overtaken[w]
    BY <1>1, <2>6 DEF CacheInv, MarkerIdentifiesGeneration
  <2> QED BY <2>5, <2>7
<1>2. CacheInv /\ [Next]_vars =>
        [root.generation = root'.generation /\ root.storage # root'.storage
            => \E w \in Workers : /\ pc[w] = "swap" /\ pc'[w] = "return"
                                  /\ ~overtaken[w]]_vars
  BY <1>1
<1> QED BY <1>2, CacheInvariant, PTL DEF Spec, NoStaleAdmission

-----------------------------------------------------------------------------
(* A marker is retained from a snapshot that caches, so a root with the    *)
(* same marker caches.                                                     *)
CacheableInv ==
    \A w \in Workers : generation[w] = root.generation => root.policy.kind # "NoCache"

(* How a step of w changes the markers: it drops its own, or takes the     *)
(* root's if the root caches.                                              *)
LEMMA MarkerStep ==
    ASSUME CacheInv, NEW w \in Workers, Start(w) \/ Continue(w), NEW x \in Workers
    PROVE  \/ generation'[x] \in {generation[x], NULL}
           \/ /\ generation'[x] = root.generation /\ root' = root
              /\ root.policy.kind # "NoCache"
<1> USE DEF CacheInv, TypeOK
<1>1. ASSUME NEW i \in Ids, HitInPlace(w, i)
      PROVE  generation'[x] \in {generation[x], NULL}
  BY <1>1 DEF HitInPlace, Answer, Release
<1>2. ASSUME NEW i \in Ids, HitToTouch(w, i) \/ Miss(w, i)
      PROVE  \/ generation'[x] \in {generation[x], NULL}
             \/ /\ generation'[x] = root.generation /\ root' = root
                /\ root.policy.kind # "NoCache"
  BY <1>2 DEF HitToTouch, Miss, Holds
<1>3. ASSUME NEW p \in Policies, SetPolicy(w, p)
      PROVE  generation'[x] \in {generation[x], NULL}
  BY <1>3 DEF SetPolicy
<1>4. CASE \/ ClearLoad(w) \/ Clear(w) \/ ClearRetry(w) \/ Computed(w) \/ Stage(w)
           \/ Retry(w) \/ Count(w) \/ Return(w)
  BY <1>4 DEF ClearLoad, Clear, ClearRetry, Computed, Stage, Retry, Count, Return
<1>5. CASE \/ Fault(w) \/ Uncacheable(w) \/ Bypass(w) \/ Unwind(w)
           \/ PublishStale(w) \/ PublishNothing(w) \/ Publish(w)
  BY <1>5 DEF Fault, Uncacheable, Bypass, Unwind, PublishStale, PublishNothing,
              Publish, Answer, Release
<1> QED BY <1>1, <1>2, <1>3, <1>4, <1>5 DEF Start, Continue

LEMMA CacheableStep ==
    ASSUME CacheInv, CacheableInv, NEW w \in Workers, Start(w) \/ Continue(w)
    PROVE  CacheableInv'
<1> SUFFICES ASSUME NEW x \in Workers, generation'[x] = root'.generation
             PROVE  root'.policy.kind # "NoCache"
  BY DEF CacheableInv
<1>0. root.generation \in Addresses /\ generation[x] \in HeldGenerations
  BY DEF CacheInv, TypeOK, IsSnapshot, HeldGenerations
<1>1. CASE root' = root
  <2>1. generation'[x] # NULL
    BY <1>0, <1>1, NullAssumption
  <2> QED BY <1>1, <2>1, MarkerStep DEF CacheableInv
<1>2. CASE Publish(w)
  <2>1. root'.generation = root.generation /\ root'.policy = root.policy
    <3>1. root.at = current[w].at /\ pc[w] = "swap"
      BY <1>2 DEF Publish, At, CasSucceeds
    <3>2. current[w] = root /\ IsSnapshot(root)
      BY <3>1 DEF CacheInv, GuardInv, TypeOK
    <3> QED BY <1>2, <3>2 DEF Publish, IsSnapshot
  <2>2. CASE x = w
    <3>1. root.generation = generation[w]
      BY <1>2, PublishFacts
    <3> QED BY <2>1, <2>2, <3>1 DEF CacheableInv
  <2>3. CASE x # w
    <3>1. generation'[x] = generation[x]
      BY <1>2, <2>3 DEF Publish, Answer, Release, CacheInv, TypeOK
    <3> QED BY <2>1, <3>1 DEF CacheableInv
  <2> QED BY <2>2, <2>3
<1>3. CASE root'.generation \notin HeldGenerations
  <2>1. root' # root
    BY <1>3 DEF HeldGenerations
  <2>2. generation'[x] = NULL
    BY <1>0, <1>3, <2>1, MarkerStep
  <2>3. root'.generation \in Addresses
    BY NextKeepsCacheInv DEF Next, CacheInv, TypeOK, IsSnapshot
  <2> QED BY <2>2, <2>3, NullAssumption
<1> QED BY <1>1, <1>2, <1>3, RootStep

LEMMA CacheableInvariant == Spec => []CacheableInv
<1>1. Init => CacheableInv
  <2> SUFFICES ASSUME Init PROVE CacheableInv
    OBVIOUS
  <2>1. root.generation \in Addresses
    BY InitEstablishesCacheInv DEF CacheInv, TypeOK, IsSnapshot
  <2> QED BY <2>1, NullAssumption DEF Init, CacheableInv
<1>2. CacheInv /\ CacheableInv /\ [Next]_vars => CacheableInv'
  <2>1. ASSUME CacheInv, CacheableInv, NEW w \in Workers, Start(w) \/ Continue(w)
        PROVE  CacheableInv'
    BY <2>1, CacheableStep
  <2>2. ASSUME CacheableInv, UNCHANGED vars PROVE CacheableInv'
    BY <2>2 DEF vars, CacheableInv
  <2> QED BY <2>1, <2>2 DEF Next
<1> QED BY <1>1, <1>2, CacheInvariant, PTL DEF Spec

(* The step on which a worker answers from publication is its own.         *)
LEMMA AnsweringStep ==
    ASSUME CacheInv, NEW w \in Workers, Start(w) \/ Continue(w),
           NEW x \in Workers, pc[x] \in {"publish", "swap"}, pc'[x] = "return"
    PROVE  x = w /\ (PublishStale(w) \/ PublishNothing(w) \/ Publish(w))
<1> USE DEF CacheInv, TypeOK, At, Goto
<1>1. ASSUME NEW i \in Ids, HitInPlace(w, i) \/ HitToTouch(w, i) \/ Miss(w, i) PROVE FALSE
  BY <1>1 DEF HitInPlace, HitToTouch, Miss, Answer
<1>2. ASSUME NEW p \in Policies, SetPolicy(w, p) PROVE FALSE
  BY <1>2 DEF SetPolicy
<1>3. CASE \/ ClearLoad(w) \/ Clear(w) \/ ClearRetry(w) \/ Computed(w) \/ Stage(w)
           \/ Retry(w) \/ Count(w) \/ Return(w)
  BY <1>3 DEF ClearLoad, Clear, ClearRetry, Computed, Stage, Retry, Count, Return
<1>4. CASE Fault(w) \/ Uncacheable(w) \/ Bypass(w) \/ Unwind(w)
  BY <1>4 DEF Fault, Uncacheable, Bypass, Unwind, Answer
<1>5. CASE PublishStale(w) \/ PublishNothing(w) \/ Publish(w)
  BY <1>5 DEF PublishStale, PublishNothing, Publish, Answer
<1> QED BY <1>1, <1>2, <1>3, <1>4, <1>5 DEF Start, Continue

(* Whoever publishes in its own generation returns the resident value, and *)
(* leaves it the most recent.                                              *)
THEOREM PublicationIsCanonical == Spec => AnswerIsCanonical
<1> DEFINE A == \A w \in Workers :
                   pc[w] \in {"publish", "swap"} /\ pc'[w] = "return" /\ ~overtaken[w]
                      => /\ Holds(root', id[w]) /\ value'[w] = ValueOf(root', id[w])
                         /\ Touch(root', id[w]) = NoSlot
<1>1. ASSUME CacheInv, CacheableInv, Next PROVE A
  <2>1. SUFFICES ASSUME NEW x \in Workers, pc[x] \in {"publish", "swap"},
                        pc'[x] = "return", ~overtaken[x]
                 PROVE  /\ Holds(root', id[x]) /\ value'[x] = ValueOf(root', id[x])
                        /\ Touch(root', id[x]) = NoSlot
    OBVIOUS
  <2>2. PICK w \in Workers : Start(w) \/ Continue(w)
    BY <1>1 DEF Next
  <2>3. x = w /\ (PublishStale(w) \/ PublishNothing(w) \/ Publish(w))
    BY <1>1, <2>1, <2>2, AnsweringStep
  <2>4. generation[x] # NULL /\ generation[x] = root.generation
    BY <1>1, <2>1 DEF CacheInv, TypeOK, MarkerIdentifiesGeneration
  <2>5. CASE PublishStale(w)
    BY <1>1, <2>3, <2>4, <2>5 DEF PublishStale, CacheableInv
  <2>6. CASE PublishNothing(w)
    BY <1>1, <2>3, <2>6 DEF PublishNothing, Answer, CacheInv, TypeOK
  <2>7. CASE Publish(w)
    BY <1>1, <2>3, <2>7, PublishFacts
  <2> QED BY <2>3, <2>5, <2>6, <2>7
<1>2. CacheInv /\ CacheableInv /\ [Next]_vars => [A]_vars
  BY <1>1
<1> QED BY <1>2, CacheInvariant, CacheableInvariant, PTL DEF Spec, AnswerIsCanonical

-----------------------------------------------------------------------------
(* What ExactResidency sees of a snapshot.                                 *)
ValuesIn(r) == [i \in Residents(r.storage) |-> ValueOf(r, i)]
OrderIn(r) == IF r.policy.kind = "Lru" THEN RecencyOrder(r.storage) ELSE << >>

(* Looking an id up in the snapshot and in the abstract cache.             *)
LEMMA LookupsAgree ==
    ASSUME NEW r, IsSnapshot(r), StorageInv(r), NEW i
    PROVE  /\ Holds(r, i) <=> i \in DOMAIN ValuesIn(r)
           /\ i \in DOMAIN ValuesIn(r) => ValuesIn(r)[i] = ValueOf(r, i)
           /\ i \in DOMAIN ValuesIn(r) /\ r.policy.kind = "Lru"
                 => (Touch(r, i) = NoSlot <=> Last(OrderIn(r)) = i)
<1>1. Holds(r, i) <=> i \in DOMAIN ValuesIn(r)
  BY DEF Holds, ValuesIn, StorageInv
<1>2. ASSUME i \in Residents(r.storage), r.policy.kind = "Lru"
      PROVE  Touch(r, i) = NoSlot <=> Last(OrderIn(r)) = i
  <2> DEFINE s == r.storage
             order == RecencyOrder(s)
  <2>1. Threaded(s, Ids, Workers)
    BY <1>2 DEF StorageInv
  <2>2. IndexCoherent(s) /\ s.len \in Nat /\ i \in Residents(s)
    BY <1>2, <2>1, ThreadedFacts
  <2>3. /\ s.entries[i].slot \in 1..s.len /\ s.links[s.entries[i].slot].id = i
        /\ s.len > 0
    <3>1. s.entries[i].slot \in 1..s.len /\ s.links[s.entries[i].slot].id = i
      BY ONLY <2>2 DEF IndexCoherent
    <3> HIDE DEF s
    <3> QED BY ONLY <2>2, <3>1
  <2>4. order[s.len] = s.links[s.tail].id
    BY <2>1, <2>3, RecencyEnds
  <2>5. Len(order) = s.len
    BY <2>1, OrderIsSequence
  <2>6. Last(OrderIn(r)) = s.links[s.tail].id
    <3> HIDE DEF order
    <3>1. OrderIn(r) = order
      BY <1>2 DEF OrderIn, order
    <3> QED BY <2>4, <2>5, <3>1 DEF Last
  <2>7. s.tail \in 1..s.len /\ s.entries[s.links[s.tail].id].slot = s.tail
    BY <2>1, <2>2, <2>3, ThreadedFacts DEF IndexCoherent, LinksCoherent
  <2>8. Touch(r, i) = NoSlot <=> s.tail = s.entries[i].slot
    BY <1>2, <2>3 DEF Touch, TouchOf, NoSlot
  <2> HIDE DEF s, order
  <2> QED BY <2>3, <2>6, <2>7, <2>8
<1> QED BY <1>1, <1>2 DEF ValuesIn

(* A hit leaves the values; under Lru it renews the id.                    *)
LEMMA HitIsRenewal ==
    ASSUME NEW r, IsSnapshot(r), StorageInv(r), NEW i \in Ids, Holds(r, i),
           NEW v \in Workers, NEW at \in Addresses
    PROVE  LET t == Successor(r, i, v, at)
               order == OrderIn(r)
           IN
           /\ r.policy.kind = "Lru" =>
                 \E m \in 1..Len(order) :
                    /\ order[m] = i
                    /\ Touch(r, i) = NoSlot => order = Append(RemoveAt(order, m), i)
                    /\ Touch(r, i) # NoSlot => OrderIn(t) = Append(RemoveAt(order, m), i)
           /\ Touch(r, i) # NoSlot => r.policy.kind = "Lru" /\ ValuesIn(t) = ValuesIn(r)
<1> DEFINE s == r.storage
           t == Successor(r, i, v, at)
           u == Recorded(r, i, Chosen(r, i, v), Touch(r, i))
           order == OrderIn(r)
<1>1. i \in Residents(s) /\ r.policy.kind # "NoCache"
  BY DEF Holds
<1>2. t = [r EXCEPT !.at = at, !.storage = u]
  BY DEF Successor
<1>3. Touch(r, i) # NoSlot => r.policy.kind = "Lru"
  BY DEF Touch
<1>4. t.storage = u /\ t.policy = r.policy
  <2> HIDE DEF t, u
  <2> QED BY <1>2 DEF IsSnapshot
<1>5. CASE r.policy.kind = "Lru"
  <2>1. Threaded(s, Ids, Workers)
    BY <1>5 DEF StorageInv
  <2> DEFINE moved == TouchSlot(s, s.entries[i].slot)
  <2>2. PICK m \in 1..Len(RecencyOrder(s)) :
           /\ RecencyOrder(s)[m] = i
           /\ RecencyOrder(moved) = Append(RemoveAt(RecencyOrder(s), m), i)
    BY <1>1, <2>1, TouchIsMove
  <2>3. order = RecencyOrder(s)
    BY <1>5 DEF OrderIn
  <2>4. Touch(r, i) = NoSlot => moved = s
    <3>1. s.entries[i].slot \in 1..s.len /\ s.len \in Nat
      BY <1>1, <2>1, ThreadedFacts DEF IndexCoherent
    <3>2. s.entries[i].slot # NoSlot
      BY <3>1 DEF NoSlot
    <3> QED BY <1>5, <3>2 DEF Touch, TouchOf, TouchSlot
  <2>5. Touch(r, i) # NoSlot => u = moved
    BY <1>5 DEF Recorded, Touch, TouchOf
  <2>6. s.entries[i].slot \in 1..s.len
    BY <1>1, <2>1, ThreadedFacts DEF IndexCoherent
  <2>7. moved.entries = s.entries
    <3>1. LruInvariant(s, Ids, Workers)
      BY <2>1 DEF Threaded
    <3> QED BY <2>6, <3>1, TouchKeepsInvariant
  <2> HIDE DEF t, u, moved, order
  <2>8. Touch(r, i) # NoSlot => OrderIn(t) = RecencyOrder(moved)
    BY <1>4, <1>5, <2>5 DEF OrderIn
  <2>9. Touch(r, i) # NoSlot => ValuesIn(t) = ValuesIn(r)
    BY <1>4, <2>5, <2>7 DEF ValuesIn, ValueOf, Residents
  <2> QED BY <1>3, <2>2, <2>3, <2>4, <2>8, <2>9 DEF t, order
<1>6. CASE r.policy.kind # "Lru"
  BY <1>3, <1>6
<1> QED BY <1>5, <1>6

(* What an admission keeps: under Lru the full order drops its head.       *)
KeptOrder(r) == IF r.policy.kind = "Lru" /\ Len(OrderIn(r)) = r.policy.capacity
                THEN Tail(OrderIn(r)) ELSE OrderIn(r)
KeptIds(r) == IF r.policy.kind = "Lru" THEN ToSet(KeptOrder(r)) ELSE DOMAIN ValuesIn(r)
Admitted(r, i, v) == [j \in KeptIds(r) \cup {i} |-> IF j = i THEN v ELSE ValuesIn(r)[j]]

(* A miss is admitted as the abstract cache admits it.                     *)
LEMMA MissIsAdmission ==
    ASSUME NEW r, IsSnapshot(r), StorageInv(r), r.policy.kind # "NoCache",
           NEW i \in Ids, ~Holds(r, i), NEW v \in Workers, NEW at \in Addresses
    PROVE  LET t == Successor(r, i, v, at) IN
           /\ ValuesIn(t) = Admitted(r, i, v)
           /\ OrderIn(t) = IF r.policy.kind = "Lru" THEN Append(KeptOrder(r), i)
                                                    ELSE OrderIn(r)
<1> DEFINE s == r.storage
           t == Successor(r, i, v, at)
           u == Recorded(r, i, v, NoSlot)
           order == OrderIn(r)
<1>1. i \notin Residents(s)
  BY DEF Holds
<1>2. t = [r EXCEPT !.at = at, !.storage = u]
  BY DEF Successor, Chosen
<1>4. t.storage = u /\ t.policy = r.policy
  <2> HIDE DEF t, u
  <2> QED BY <1>2 DEF IsSnapshot
<1>5. CASE r.policy.kind = "Lru"
  <2>1. Threaded(s, Ids, Workers) /\ s.capacity = r.policy.capacity
    BY <1>5 DEF StorageInv, IsSnapshot
  <2>2. u = InsertId(s, i, v)
    BY <1>5 DEF Recorded
  <2>3. order = RecencyOrder(s)
    BY <1>5 DEF OrderIn
  <2> DEFINE kept == IF Len(order) = s.capacity THEN Tail(order) ELSE order
  <2>4. RecencyOrder(InsertId(s, i, v))
           = Append(IF Len(RecencyOrder(s)) = s.capacity THEN Tail(RecencyOrder(s))
                    ELSE RecencyOrder(s), i)
    BY <1>1, <2>1, InsertIsAppend
  <2>5. /\ Residents(InsertId(s, i, v))
              = ToSet(IF Len(RecencyOrder(s)) = s.capacity THEN Tail(RecencyOrder(s))
                      ELSE RecencyOrder(s)) \cup {i}
        /\ \A j \in Residents(InsertId(s, i, v)) :
              InsertId(s, i, v).entries[j].value = IF j = i THEN v ELSE s.entries[j].value
    BY <1>1, <2>1, InsertEntries
  <2>6. Residents(InsertId(s, i, v)) \subseteq Residents(s) \cup {i}
    BY <1>1, <2>1, InsertEntries
  <2> HIDE DEF t, u, order
  <2>7. /\ RecencyOrder(u) = Append(kept, i)
        /\ Residents(u) = ToSet(kept) \cup {i}
        /\ Residents(u) \subseteq Residents(s) \cup {i}
        /\ \A j \in Residents(u) : u.entries[j].value = IF j = i THEN v ELSE s.entries[j].value
    BY <2>2, <2>3, <2>4, <2>5, <2>6
  <2> HIDE DEF kept
  <2>8. ValuesIn(t) = [j \in ToSet(kept) \cup {i} |-> IF j = i THEN v ELSE ValuesIn(r)[j]]
    BY <1>4, <2>7 DEF ValuesIn, ValueOf
  <2>9. OrderIn(t) = Append(kept, i)
    BY <1>4, <1>5, <2>7 DEF OrderIn
  <2>10. kept = KeptOrder(r)
    BY <1>5, <2>1 DEF KeptOrder, kept, order
  <2> QED BY <1>5, <2>8, <2>9, <2>10 DEF t, Admitted, KeptIds
<1>6. CASE r.policy.kind # "Lru"
  <2>1. r.policy.kind = "CacheAll"
    BY <1>6, PolicyAssumption DEF IsSnapshot, Kinds
  <2> DEFINE e == WithEntry(s.entries, {}, i, NoSlot, v)
  <2>2. u = [s EXCEPT !.entries = e]
    BY <2>1 DEF Recorded
  <2>3. /\ DOMAIN e = Residents(s) \cup {i}
        /\ \A j \in DOMAIN e : e[j].value = IF j = i THEN v ELSE s.entries[j].value
    BY DEF WithEntry, Residents
  <2> HIDE DEF e, u, t, order
  <2>4. u.entries = e
    BY <2>2 DEF IsSnapshot, IsStorage
  <2>5. ValuesIn(t) = [j \in DOMAIN ValuesIn(r) \cup {i} |->
                          IF j = i THEN v ELSE ValuesIn(r)[j]]
    BY <1>4, <2>3, <2>4 DEF ValuesIn, ValueOf, Residents
  <2>6. OrderIn(t) = order
    BY <1>4, <1>6 DEF OrderIn, order
  <2> QED BY <1>6, <2>5, <2>6 DEF t, order, Admitted, KeptIds
<1> QED BY <1>5, <1>6

(* A worker holds a value from the time it was found or computed.          *)
ValueInv ==
    \A w \in Workers : pc[w] \notin {"publish", "swap", "return"} => value[w] = NULL

RefinementInv == CacheInv /\ CacheableInv /\ ValueInv

LEMMA ValueStep ==
    ASSUME TypeOK, ValueInv, NEW w \in Workers, Start(w) \/ Continue(w)
    PROVE  ValueInv'
<1> USE DEF TypeOK, ValueInv, At, Goto, Answer
<1>1. ASSUME NEW i \in Ids, HitInPlace(w, i) \/ HitToTouch(w, i) \/ Miss(w, i)
      PROVE  ValueInv'
  BY <1>1 DEF HitInPlace, HitToTouch, Miss
<1>2. ASSUME NEW p \in Policies, SetPolicy(w, p) PROVE ValueInv'
  BY <1>2 DEF SetPolicy
<1>3. CASE ClearLoad(w) \/ Clear(w) \/ ClearRetry(w) \/ Computed(w) \/ Stage(w)
  BY <1>3 DEF ClearLoad, Clear, ClearRetry, Computed, Stage
<1>4. CASE Retry(w) \/ Count(w) \/ Return(w)
  BY <1>4 DEF Retry, Count, Return
<1>5. CASE Fault(w) \/ Uncacheable(w) \/ Bypass(w) \/ Unwind(w)
  BY <1>5 DEF Fault, Uncacheable, Bypass, Unwind
<1>6. CASE PublishStale(w) \/ PublishNothing(w) \/ Publish(w)
  BY <1>6 DEF PublishStale, PublishNothing, Publish
<1> QED BY <1>1, <1>2, <1>3, <1>4, <1>5, <1>6 DEF Start, Continue

LEMMA RefinementInvariant == Spec => []RefinementInv
<1>1. Init => ValueInv
  BY DEF Init, ValueInv
<1>2. CacheInv /\ ValueInv /\ [Next]_vars => ValueInv'
  <2>1. ASSUME CacheInv, ValueInv, NEW w \in Workers, Start(w) \/ Continue(w)
        PROVE  ValueInv'
    BY <2>1, ValueStep DEF CacheInv
  <2>2. ASSUME ValueInv, UNCHANGED vars PROVE ValueInv'
    BY <2>2 DEF vars, ValueInv
  <2> QED BY <2>1, <2>2 DEF Next
<1>3. CacheInv /\ CacheableInv /\ ValueInv => RefinementInv
  BY DEF RefinementInv
<1> QED BY <1>1, <1>2, <1>3, CacheInvariant, CacheableInvariant, PTL DEF Spec

(* A call is what its worker's own variables and the root's marker say.    *)
OpenCall(w) == [phase |-> "open", id |-> id[w], offer |-> value[w],
                lost |-> generation[w] # root.generation]
AnsweredCall(i, v) == [phase |-> "answered", id |-> i, offer |-> v, lost |-> FALSE]
IdleCall == [phase |-> "idle", id |-> NULL, offer |-> NULL, lost |-> FALSE]

LEMMA CallCases ==
    ASSUME NEW w \in Workers
    PROVE  /\ pc[w] \in {"compute", "publish", "swap"} => AbstractCall(w) = OpenCall(w)
           /\ pc[w] = "return" => AbstractCall(w) = AnsweredCall(id[w], value[w])
           /\ pc[w] \notin {"compute", "publish", "swap", "return"}
                 => AbstractCall(w) = IdleCall
           /\ Calls[w] = AbstractCall(w)
  BY DEF AbstractCall, OpenCall, AnsweredCall, IdleCall, Calls

LEMMA CallCasesAfter ==
    ASSUME NEW w \in Workers
    PROVE  /\ pc'[w] \in {"compute", "publish", "swap"} => AbstractCall(w)' = OpenCall(w)'
           /\ pc'[w] = "return" => AbstractCall(w)' = AnsweredCall(id'[w], value'[w])
           /\ pc'[w] \notin {"compute", "publish", "swap", "return"}
                 => AbstractCall(w)' = IdleCall
  BY DEF AbstractCall, OpenCall, AnsweredCall, IdleCall

(* A step of w that leaves the others and the generation alone changes     *)
(* only its own call.                                                      *)
LEMMA OwnCall ==
    ASSUME TypeOK, NEW w \in Workers, root'.generation = root.generation,
           \A x \in Workers \ {w} : /\ pc'[x] = pc[x] /\ id'[x] = id[x]
                                    /\ value'[x] = value[x]
                                    /\ generation'[x] = generation[x]
    PROVE  Calls' = [Calls EXCEPT ![w] = AbstractCall(w)']
<1>1. \A x \in Workers \ {w} : AbstractCall(x)' = AbstractCall(x)
  BY DEF AbstractCall
<1>2. Calls = [x \in Workers |-> AbstractCall(x)]
  BY DEF Calls
<1>3. Calls' = [x \in Workers |-> AbstractCall(x)']
  BY DEF Calls
<1> QED BY <1>1, <1>2, <1>3

(* What ExactResidency sees while the root stays.                          *)
LEMMA SameRoot ==
    ASSUME root' = root
    PROVE  UNCHANGED <<root.policy, ResidentValues, PublishedOrder>>
  BY DEF ResidentValues, PublishedOrder

LEMMA RootLookups ==
    ASSUME CacheInv, NEW i
    PROVE  /\ Holds(root, i) <=> Abstract!Resident(i)
           /\ Abstract!Resident(i) => ResidentValues[i] = ValueOf(root, i)
           /\ Abstract!Resident(i) /\ Abstract!Exact
                 => (Touch(root, i) = NoSlot <=> Abstract!Last(PublishedOrder) = i)
           /\ ~Abstract!Exact => Touch(root, i) = NoSlot
<1>1. IsSnapshot(root) /\ StorageInv(root)
  BY DEF CacheInv, TypeOK
<1>2. ResidentValues = ValuesIn(root) /\ PublishedOrder = OrderIn(root)
  BY DEF ResidentValues, ValuesIn, PublishedOrder, OrderIn
<1>3. Abstract!Resident(i) <=> i \in DOMAIN ValuesIn(root)
  BY <1>2 DEF Abstract!Resident
<1>4. Abstract!Exact <=> root.policy.kind = "Lru"
  BY DEF Abstract!Exact
<1> QED BY <1>1, <1>2, <1>3, <1>4, LookupsAgree
        DEF Touch, Abstract!Last, Last

LEMMA ServeStep ==
    ASSUME RefinementInv, NEW w \in Workers, NEW i \in Ids, HitInPlace(w, i)
    PROVE  Abstract!Serve(w, i)
<1>1. /\ pc[w] = "idle" /\ root' = root /\ Holds(root, i) /\ Touch(root, i) = NoSlot
      /\ pc' = [pc EXCEPT ![w] = "return"] /\ id' = [id EXCEPT ![w] = i]
      /\ value' = [value EXCEPT ![w] = ValueOf(root, i)]
      /\ generation' = [generation EXCEPT ![w] = NULL]
  BY DEF HitInPlace, At, Answer, Goto, Release
<1>2. CacheInv /\ TypeOK
  BY DEF RefinementInv, CacheInv
<1>3. Calls' = [Calls EXCEPT ![w] = AbstractCall(w)']
  BY <1>1, <1>2, OwnCall DEF TypeOK
<1>4. AbstractCall(w)' = AnsweredCall(i, ValueOf(root, i))
  BY <1>1, <1>2, CallCasesAfter DEF TypeOK
<1>5. Calls[w].phase = "idle"
  BY <1>1, CallCases DEF IdleCall
<1>6. /\ Abstract!Resident(i) /\ ResidentValues[i] = ValueOf(root, i)
      /\ Abstract!Exact => Abstract!Last(PublishedOrder) = i
  BY <1>1, <1>2, RootLookups
<1> QED BY <1>1, <1>3, <1>4, <1>5, <1>6, SameRoot
        DEF Abstract!Serve, Abstract!Answered, AnsweredCall

LEMMA BeginStep ==
    ASSUME RefinementInv, NEW w \in Workers, NEW i \in Ids,
           HitToTouch(w, i) \/ Miss(w, i)
    PROVE  Abstract!Begin(w, i)
<1>2. CacheInv /\ TypeOK /\ ValueInv
  BY DEF RefinementInv, CacheInv
<1>5. pc[w] = "idle" /\ Calls[w].phase = "idle" /\ root' = root
  BY CallCases DEF IdleCall, HitToTouch, Miss, At
<1>a. root.generation \in Addresses
  BY <1>2 DEF TypeOK, IsSnapshot
<1>1. CASE HitToTouch(w, i)
  <2>1. /\ Holds(root, i) /\ Touch(root, i) # NoSlot
        /\ pc' = [pc EXCEPT ![w] = "publish"] /\ id' = [id EXCEPT ![w] = i]
        /\ value' = [value EXCEPT ![w] = ValueOf(root, i)]
        /\ generation' = [generation EXCEPT ![w] = root.generation]
    BY <1>1 DEF HitToTouch, Goto
  <2>2. Calls' = [Calls EXCEPT ![w] = AbstractCall(w)']
    BY <1>2, <1>5, <2>1, OwnCall DEF TypeOK
  <2>3. AbstractCall(w)' = [phase |-> "open", id |-> i, offer |-> ValueOf(root, i),
                            lost |-> FALSE]
    BY <1>2, <1>5, <2>1, CallCasesAfter DEF TypeOK, OpenCall
  <2>4. /\ Abstract!Resident(i) /\ ResidentValues[i] = ValueOf(root, i)
        /\ Abstract!Exact /\ Abstract!Last(PublishedOrder) # i
    BY <1>2, <2>1, RootLookups
  <2>5. root.policy.kind # "NoCache"
    BY <2>1 DEF Holds
  <2> QED BY <1>5, <2>2, <2>3, <2>4, <2>5, SameRoot DEF Abstract!Begin, Abstract!Open
<1>3. CASE Miss(w, i)
  <2>1. /\ ~Holds(root, i)
        /\ pc' = [pc EXCEPT ![w] = "compute"] /\ id' = [id EXCEPT ![w] = i]
        /\ value' = value
        /\ generation' = [generation EXCEPT ![w] =
                            IF root.policy.kind = "NoCache" THEN NULL ELSE root.generation]
    BY <1>3 DEF Miss, Goto
  <2>2. Calls' = [Calls EXCEPT ![w] = AbstractCall(w)']
    BY <1>2, <1>5, <2>1, OwnCall DEF TypeOK
  <2>3. AbstractCall(w)' = [phase |-> "open", id |-> i, offer |-> NULL,
                            lost |-> root.policy.kind = "NoCache"]
    <3>1. generation'[w] # root'.generation <=> root.policy.kind = "NoCache"
      BY <1>2, <1>5, <1>a, <2>1, NullAssumption DEF TypeOK
    <3>2. value'[w] = NULL
      BY <1>2, <1>5, <2>1 DEF ValueInv
    <3>3. id'[w] = i /\ pc'[w] = "compute"
      BY <1>2, <2>1 DEF TypeOK
    <3>4. AbstractCall(w)' = OpenCall(w)'
      BY <3>3, CallCasesAfter
    <3> QED BY <3>1, <3>2, <3>3, <3>4 DEF OpenCall
  <2>4. ~Abstract!Resident(i)
    BY <1>2, <2>1, RootLookups
  <2> QED BY <1>5, <2>2, <2>3, <2>4, SameRoot DEF Abstract!Begin, Abstract!Open
<1> QED BY <1>1, <1>3

LEMMA ComputeStep ==
    ASSUME RefinementInv, NEW w \in Workers,
           Fault(w) \/ Uncacheable(w) \/ Bypass(w) \/ Computed(w) \/ Unwind(w)
    PROVE  Abstract!Decline(w) \/ Abstract!Provide(w) \/ Abstract!Abandon(w)
<1>1. CacheInv /\ TypeOK /\ ValueInv
  BY DEF RefinementInv, CacheInv
<1>2. pc[w] = "compute" /\ root' = root
  BY DEF Fault, Uncacheable, Bypass, Computed, Unwind, At
<1>3. Calls[w] = OpenCall(w) /\ value[w] = NULL
  BY <1>1, <1>2, CallCases DEF ValueInv
<1>4. Calls[w].phase = "open" /\ Calls[w].offer = NULL /\ Calls[w].id = id[w]
  BY <1>3 DEF OpenCall
<1>5. CASE Fault(w) \/ Uncacheable(w) \/ Bypass(w)
  <2>1. /\ pc' = [pc EXCEPT ![w] = "return"] /\ id' = id
        /\ generation' = [generation EXCEPT ![w] = NULL]
        /\ value' = [value EXCEPT ![w] = w] \/ value' = [value EXCEPT ![w] = NULL]
    BY <1>5 DEF Fault, Uncacheable, Bypass, Answer, Goto, Release
  <2>2. Calls' = [Calls EXCEPT ![w] = AbstractCall(w)']
    BY <1>1, <1>2, <2>1, OwnCall DEF TypeOK
  <2>3. value'[w] \in {w, NULL} /\ AbstractCall(w)' = AnsweredCall(id[w], value'[w])
    BY <1>1, <2>1, CallCasesAfter DEF TypeOK
  <2>4. Abstract!Decline(w)
    BY <1>2, <1>4, <2>2, <2>3, SameRoot DEF Abstract!Decline, Abstract!Answered, AnsweredCall
  <2> QED BY <2>4
<1>6. CASE Computed(w)
  <2>1. /\ pc' = [pc EXCEPT ![w] = "publish"] /\ id' = id /\ generation' = generation
        /\ value' = [value EXCEPT ![w] = w]
    BY <1>6 DEF Computed, Goto
  <2>2. Calls' = [Calls EXCEPT ![w] = AbstractCall(w)']
    BY <1>1, <1>2, <2>1, OwnCall DEF TypeOK
  <2>3. AbstractCall(w)' = [OpenCall(w) EXCEPT !.offer = w]
    BY <1>1, <1>2, <2>1, CallCasesAfter DEF TypeOK, OpenCall
  <2>4. Calls' = [Calls EXCEPT ![w].offer = w]
    BY <1>3, <2>2, <2>3 DEF Calls
  <2>5. Abstract!Provide(w)
    BY <1>2, <1>4, <2>4, SameRoot DEF Abstract!Provide
  <2> QED BY <2>5
<1>7. CASE Unwind(w)
  <2>1. /\ pc' = [pc EXCEPT ![w] = "idle"] /\ value' = value
        /\ generation' = [generation EXCEPT ![w] = NULL]
        /\ id' = [id EXCEPT ![w] = NULL]
    BY <1>7 DEF Unwind, Goto, Release
  <2>2. Calls' = [Calls EXCEPT ![w] = AbstractCall(w)']
    BY <1>1, <1>2, <2>1, OwnCall DEF TypeOK
  <2>3. AbstractCall(w)' = IdleCall
    BY <1>1, <2>1, CallCasesAfter DEF TypeOK
  <2>4. Abstract!Abandon(w)
    BY <1>2, <1>4, <2>2, <2>3, SameRoot DEF Abstract!Abandon, Abstract!NoCall, IdleCall
  <2> QED BY <2>4
<1> QED BY <1>5, <1>6, <1>7

(* The answers of publish that leave the root as it is.                    *)
LEMMA PublishInPlaceStep ==
    ASSUME RefinementInv, NEW w \in Workers, PublishStale(w) \/ PublishNothing(w)
    PROVE  Abstract!Forgo(w) \/ Abstract!Record(w)
<1>1. CacheInv /\ TypeOK /\ CacheableInv
  BY DEF RefinementInv, CacheInv
<1>2. pc[w] = "publish" /\ root' = root
  BY DEF PublishStale, PublishNothing, At
<1>3. Calls[w] = OpenCall(w)
  BY <1>2, CallCases
<1>4. /\ Calls[w].phase = "open" /\ Calls[w].offer = value[w] /\ Calls[w].id = id[w]
      /\ Calls[w].lost = (generation[w] # root.generation)
  BY <1>3 DEF OpenCall
<1>5. id[w] \in Ids /\ value[w] \in Workers /\ value[w] # NULL
  BY <1>1, <1>2, NullAssumption DEF TypeOK
<1>6. ASSUME NEW v, Answer(w, v), id' = id, root' = root
      PROVE  Calls' = [Calls EXCEPT ![w] = AnsweredCall(id[w], v)]
  <2>1. /\ pc' = [pc EXCEPT ![w] = "return"] /\ value' = [value EXCEPT ![w] = v]
        /\ generation' = [generation EXCEPT ![w] = NULL]
    BY <1>6 DEF Answer, Goto, Release
  <2>2. Calls' = [Calls EXCEPT ![w] = AbstractCall(w)']
    BY <1>1, <1>6, <2>1, OwnCall DEF TypeOK
  <2>3. AbstractCall(w)' = AnsweredCall(id[w], v)
    BY <1>1, <1>6, <2>1, CallCasesAfter DEF TypeOK
  <2> QED BY <2>2, <2>3
<1>7. CASE PublishStale(w)
  <2>1. Calls' = [Calls EXCEPT ![w] = AnsweredCall(id[w], value[w])]
    BY <1>2, <1>6, <1>7 DEF PublishStale
  <2>2. generation[w] # root.generation
    BY <1>1, <1>7 DEF PublishStale, CacheableInv
  <2>3. Abstract!Forgo(w)
    BY <1>2, <1>4, <1>5, <2>1, <2>2, SameRoot
       DEF Abstract!Forgo, Abstract!Answered, AnsweredCall
  <2> QED BY <2>3
<1>8. CASE PublishNothing(w)
  <2> DEFINE i == id[w]
  <2>1. /\ Holds(root, i) /\ Touch(root, i) = NoSlot /\ root.generation = generation[w]
        /\ Calls' = [Calls EXCEPT ![w] = AnsweredCall(i, ValueOf(root, i))]
    BY <1>2, <1>6, <1>8 DEF PublishNothing
  <2>2. Abstract!Resident(i) /\ ResidentValues[i] = ValueOf(root, i)
    BY <1>1, <2>1, RootLookups
  <2>3. root.policy.kind = "Lru" =>
           \E m \in 1..Len(PublishedOrder) :
              /\ PublishedOrder[m] = i
              /\ PublishedOrder = Append(RemoveAt(PublishedOrder, m), i)
    <3>1. /\ IsSnapshot(root) /\ StorageInv(root) /\ root.at \in Addresses /\ i \in Ids
          /\ w \in Workers
      BY <1>1, <1>5 DEF CacheInv, TypeOK, IsSnapshot
    <3>2. PublishedOrder = OrderIn(root)
      BY DEF PublishedOrder, OrderIn
    <3> HIDE DEF i
    <3> QED BY <2>1, <3>1, <3>2, HitIsRenewal
  <2>4. Abstract!Renew(i)
    BY <1>2, <2>3, SameRoot DEF Abstract!Renew, Abstract!Exact, Abstract!RemoveAt, RemoveAt
  <2>5. Abstract!Record(w)
    BY <1>2, <1>4, <1>5, <2>1, <2>2, <2>4, SameRoot
       DEF Abstract!Record, Abstract!Answered, AnsweredCall
  <2> QED BY <2>5
<1> QED BY <1>7, <1>8

(* A publication puts the successor of the root in its place.              *)
LEMMA PublishSuccessor ==
    ASSUME CacheInv, NEW w \in Workers, Publish(w)
    PROVE  /\ \E at \in Addresses : root' = Successor(root, id[w], value[w], at)
           /\ Canonical(w) = Chosen(root, id[w], value[w])
<1>1. PICK at \in Addresses \ HeldRoots :
         root' = [current[w] EXCEPT !.at = at, !.storage = Staged(w)]
  BY DEF Publish
<1>2. current[w] = root
  BY PublishFacts
<1>3. Canonical(w) = Chosen(root, id[w], value[w])
  BY <1>2 DEF Canonical, Chosen
<1> QED BY <1>1, <1>2, <1>3 DEF Successor, Staged

LEMMA PublishStep ==
    ASSUME RefinementInv, NEW w \in Workers, Publish(w)
    PROVE  Abstract!Record(w)
<1> DEFINE i == id[w]
           v == value[w]
<1>1. CacheInv /\ TypeOK /\ IsSnapshot(root) /\ StorageInv(root)
  BY DEF RefinementInv, CacheInv, TypeOK
<1>2. PICK at \in Addresses : root' = Successor(root, i, v, at)
  BY <1>1, PublishSuccessor
<1>3. /\ pc[w] = "swap" /\ current[w] = root /\ root.generation = generation[w]
      /\ root'.generation = root.generation
      /\ Canonical(w) = Chosen(root, i, v)
  BY <1>1, PublishFacts, PublishSuccessor DEF Publish, At
<1>4. /\ i \in Ids /\ v \in Workers /\ v # NULL /\ root.policy.kind # "NoCache"
      /\ ~(Holds(root, i) /\ Touch(root, i) = NoSlot)
  BY <1>1, <1>3, NullAssumption DEF TypeOK, CacheInv, SwapInv
<1>5. root'.policy = root.policy
  <2> HIDE DEF i, v
  <2> QED BY <1>1, <1>2, <1>4, RecordedIsResident
<1>6. Calls' = [Calls EXCEPT ![w] = AnsweredCall(i, Chosen(root, i, v))]
  <2>1. /\ pc' = [pc EXCEPT ![w] = "return"] /\ value' = [value EXCEPT ![w] = Canonical(w)]
        /\ generation' = [generation EXCEPT ![w] = NULL] /\ id' = id
    BY DEF Publish, Answer, Goto, Release
  <2>2. Calls' = [Calls EXCEPT ![w] = AbstractCall(w)']
    BY <1>1, <1>3, <2>1, OwnCall DEF TypeOK
  <2>3. AbstractCall(w)' = AnsweredCall(i, Canonical(w))
    BY <1>1, <2>1, CallCasesAfter DEF TypeOK
  <2> QED BY <1>3, <2>2, <2>3
<1>7. /\ Calls[w].phase = "open" /\ Calls[w].offer = v /\ Calls[w].id = i
      /\ Calls[w].lost = FALSE
  <2>1. Calls[w] = OpenCall(w)
    BY <1>3, CallCases
  <2>2. OpenCall(w) = [phase |-> "open", id |-> i, offer |-> v, lost |-> FALSE]
    BY <1>3 DEF OpenCall
  <2> QED BY <2>1, <2>2
<1>8. /\ ResidentValues = ValuesIn(root) /\ PublishedOrder = OrderIn(root)
      /\ ResidentValues' = ValuesIn(root') /\ PublishedOrder' = OrderIn(root')
  BY DEF ResidentValues, ValuesIn, PublishedOrder, OrderIn
<1>9. CASE Holds(root, i)
  <2>1. Abstract!Resident(i) /\ ResidentValues[i] = ValueOf(root, i)
    BY <1>1, <1>9, RootLookups
  <2>2. /\ root.policy.kind = "Lru"
        /\ ValuesIn(root') = ValuesIn(root)
        /\ \E m \in 1..Len(OrderIn(root)) :
              /\ OrderIn(root)[m] = i
              /\ OrderIn(root') = Append(RemoveAt(OrderIn(root), m), i)
    <3> HIDE DEF i, v
    <3> QED BY <1>1, <1>2, <1>4, <1>9, HitIsRenewal
  <2>3. Abstract!Renew(i)
    BY <1>8, <2>2 DEF Abstract!Renew, Abstract!Exact, Abstract!RemoveAt, RemoveAt
  <2>4. Calls' = [Calls EXCEPT ![w] = AnsweredCall(i, ResidentValues[i])]
    BY <1>6, <1>9, <2>1 DEF Chosen
  <2> QED BY <1>4, <1>5, <1>7, <1>8, <2>1, <2>2, <2>3, <2>4
          DEF Abstract!Record, Abstract!Answered, AnsweredCall
<1>10. CASE ~Holds(root, i)
  <2>1. ~Abstract!Resident(i)
    BY <1>1, <1>10, RootLookups
  <2>2. /\ ValuesIn(root') = Admitted(root, i, v)
        /\ OrderIn(root') = IF root.policy.kind = "Lru" THEN Append(KeptOrder(root), i)
                                                        ELSE OrderIn(root)
    <3> HIDE DEF i, v
    <3> QED BY <1>1, <1>2, <1>4, <1>10, MissIsAdmission
  <2>3. Abstract!Admit(i, v)
    <3> HIDE DEF i, v
    <3> QED BY <1>8, <2>2 DEF Abstract!Admit, Abstract!Exact, Abstract!ToSet, ToSet,
                              Admitted, KeptIds, KeptOrder
  <2>4. Calls' = [Calls EXCEPT ![w] = AnsweredCall(i, v)]
    BY <1>6, <1>10 DEF Chosen
  <2> QED BY <1>4, <1>5, <1>7, <2>1, <2>3, <2>4
          DEF Abstract!Record, Abstract!Answered, AnsweredCall
<1> QED BY <1>9, <1>10

(* Marking a call as lost changes nothing else of it.                      *)
LEMMA LostCall ==
    ASSUME NEW p, NEW i, NEW v, NEW b, NEW c,
           c = [phase |-> p, id |-> i, offer |-> v, lost |-> b]
    PROVE  [c EXCEPT !.lost = TRUE] = [phase |-> p, id |-> i, offer |-> v, lost |-> TRUE]
<1>1. \A t : [c EXCEPT !.lost = t] = [phase |-> p, id |-> i, offer |-> v, lost |-> t]
  OBVIOUS
<1> QED BY <1>1, Zenon

(* clear and set_policy end every open call's generation at once.          *)
LEMMA FlushStep ==
    ASSUME RefinementInv, NEW w \in Workers, NEW p \in Policies, Replacement(p),
           pc[w] \in {"idle", "clear"}, Goto(w, "cleared"),
           UNCHANGED <<id, value, generation>>
    PROVE  Abstract!Flush
<1>1. CacheInv /\ TypeOK
  BY DEF RefinementInv, CacheInv
<1>2. PICK at \in Addresses, gen \in Addresses \ HeldGenerations :
         root' = Snapshot(at, gen, p)
  BY DEF Replacement
<1>3. root'.policy = p /\ root'.generation = gen
      /\ root'.storage = EmptyStorage(p.capacity)
  BY <1>2 DEF Snapshot
<1>4. ResidentValues' = << >>
  <2>1. Residents(root'.storage) = {}
    BY <1>3 DEF EmptyStorage, Residents
  <2> QED BY <2>1 DEF ResidentValues
<1>5. PublishedOrder' = << >>
  <2>1. p.kind = "Lru" => p.capacity \in Nat \ {0}
    BY PolicyAssumption
  <2>2. p.kind = "Lru" => RecencyOrder(EmptyStorage(p.capacity)) = << >>
    BY <2>1, EmptyIsThreaded
  <2> QED BY <1>3, <2>2 DEF PublishedOrder
<1>6. ASSUME NEW x \in Workers
      PROVE  AbstractCall(x)' = IF Calls[x].phase = "open"
                                THEN [Calls[x] EXCEPT !.lost = TRUE] ELSE Calls[x]
  <2>1. generation'[x] # root'.generation
    BY <1>1, <1>2, <1>3, NullAssumption DEF HeldGenerations
  <2>2. id' = id /\ value' = value /\ generation' = generation
    OBVIOUS
  <2>3. CASE pc[x] \in {"compute", "publish", "swap"}
    <3>1. pc'[x] = pc[x]
      BY <2>3 DEF Goto
    <3>2. Calls[x] = OpenCall(x) /\ AbstractCall(x)' = OpenCall(x)'
      BY <2>3, <3>1, CallCases, CallCasesAfter
    <3>3. OpenCall(x)' = [phase |-> "open", id |-> id[x], offer |-> value[x], lost |-> TRUE]
      BY <2>1, <2>2 DEF OpenCall
    <3>4. Calls[x] = [phase |-> "open", id |-> id[x], offer |-> value[x],
                      lost |-> generation[x] # root.generation]
      BY <3>2 DEF OpenCall
    <3>5. Calls[x].phase = "open"
      BY <3>4
    <3>6. [Calls[x] EXCEPT !.lost = TRUE]
             = [phase |-> "open", id |-> id[x], offer |-> value[x], lost |-> TRUE]
      <4> DEFINE b == generation[x] # root.generation
      <4>1. Calls[x] = [phase |-> "open", id |-> id[x], offer |-> value[x], lost |-> b]
        BY <3>4
      <4> HIDE DEF b
      <4> QED BY <4>1, LostCall
    <3> QED BY <3>2, <3>3, <3>5, <3>6
  <2>4. CASE pc[x] = "return"
    <3>1. pc'[x] = pc[x]
      BY <2>4 DEF Goto
    <3>2. /\ Calls[x] = AnsweredCall(id[x], value[x])
          /\ AbstractCall(x)' = AnsweredCall(id[x], value[x])
      BY <2>2, <2>4, <3>1, CallCases, CallCasesAfter
    <3> QED BY <3>2 DEF AnsweredCall
  <2>5. CASE pc[x] \notin {"compute", "publish", "swap", "return"}
    <3>1. pc'[x] \notin {"compute", "publish", "swap", "return"}
      BY <1>1, <2>5 DEF Goto, TypeOK
    <3>2. Calls[x] = IdleCall /\ AbstractCall(x)' = IdleCall
      BY <2>5, <3>1, CallCases, CallCasesAfter
    <3> QED BY <3>2 DEF IdleCall
  <2> QED BY <2>3, <2>4, <2>5
<1>7. Calls' = [x \in Workers |-> AbstractCall(x)']
  BY DEF Calls
<1>8. Calls' = [x \in Workers |-> IF Calls[x].phase = "open"
                                  THEN [Calls[x] EXCEPT !.lost = TRUE] ELSE Calls[x]]
  BY <1>6, <1>7
<1> QED BY <1>3, <1>4, <1>5, <1>8 DEF Abstract!Flush

LEMMA ReturnStep ==
    ASSUME RefinementInv, NEW w \in Workers, Return(w), pc[w] = "return"
    PROVE  Abstract!Finish(w)
<1>1. CacheInv /\ TypeOK
  BY DEF RefinementInv, CacheInv
<1>2. /\ root' = root /\ pc' = [pc EXCEPT ![w] = "idle"]
      /\ id' = [id EXCEPT ![w] = NULL] /\ value' = [value EXCEPT ![w] = NULL]
      /\ generation' = generation
  BY DEF Return, Goto
<1>3. Calls' = [Calls EXCEPT ![w] = AbstractCall(w)']
  BY <1>1, <1>2, OwnCall DEF TypeOK
<1>4. AbstractCall(w)' = IdleCall
  BY <1>1, <1>2, CallCasesAfter DEF TypeOK
<1>5. Calls[w].phase = "answered"
  BY CallCases DEF AnsweredCall
<1> QED BY <1>2, <1>3, <1>4, <1>5, SameRoot DEF Abstract!Finish, Abstract!NoCall, IdleCall

(* Loads, lost swaps and statistics are invisible.                         *)
LEMMA InvisibleStep ==
    ASSUME RefinementInv, NEW w \in Workers,
           \/ Stage(w) \/ Retry(w) \/ ClearLoad(w) \/ ClearRetry(w) \/ Count(w)
           \/ Return(w) /\ pc[w] # "return"
    PROVE  UNCHANGED Abstract!abstractVars
<1>1. CacheInv /\ TypeOK
  BY DEF RefinementInv, CacheInv
<1>2. root' = root /\ generation' = generation
  BY DEF Stage, Retry, ClearLoad, ClearRetry, Count, Return
<1>3. ASSUME NEW x \in Workers PROVE AbstractCall(x)' = Calls[x]
  <2>1. CASE pc'[x] = pc[x] /\ id'[x] = id[x] /\ value'[x] = value[x]
    BY <1>2, <2>1 DEF AbstractCall, Calls
  <2>2. CASE Stage(w) \/ Retry(w)
    <3>1. /\ id' = id /\ value' = value
          /\ pc[w] \in {"publish", "swap"} /\ pc'[w] \in {"publish", "swap"}
          /\ x # w => pc'[x] = pc[x]
      BY <1>1, <2>2 DEF Stage, Retry, Goto, At, TypeOK
    <3> QED BY <1>2, <2>1, <3>1, CallCases, CallCasesAfter DEF OpenCall
  <2>3. CASE ClearLoad(w) \/ ClearRetry(w) \/ Count(w) \/ (Return(w) /\ pc[w] # "return")
    <3>1. /\ x # w => pc'[x] = pc[x] /\ id'[x] = id[x] /\ value'[x] = value[x]
          /\ \/ pc'[w] = pc[w] /\ id' = id /\ value' = value
             \/ pc[w] \in {"idle", "cleared"} /\ pc'[w] \in {"idle", "clear"}
      BY <1>1, <2>3 DEF ClearLoad, ClearRetry, Count, Return, Goto, At, TypeOK
    <3> QED BY <2>1, <3>1, CallCases, CallCasesAfter
  <2> QED BY <2>2, <2>3
<1>4. Calls' = [x \in Workers |-> AbstractCall(x)'] /\ Calls = [x \in Workers |-> Calls[x]]
  BY DEF Calls
<1>5. Calls' = Calls
  BY <1>3, <1>4
<1> QED BY <1>2, <1>5, SameRoot DEF Abstract!abstractVars

LEMMA StepIsAbstract ==
    ASSUME RefinementInv, NEW w \in Workers, Start(w) \/ Continue(w)
    PROVE  Abstract!Next \/ UNCHANGED Abstract!abstractVars
<1>1. ASSUME NEW i \in Ids, HitInPlace(w, i) \/ HitToTouch(w, i) \/ Miss(w, i)
      PROVE  Abstract!Next
  BY <1>1, ServeStep, BeginStep DEF Abstract!Next
<1>2. ASSUME NEW p \in Policies, SetPolicy(w, p) PROVE Abstract!Next
  <2>1. Abstract!Flush
    BY <1>2, FlushStep DEF SetPolicy, At
  <2> QED BY <2>1 DEF Abstract!Next
<1>3. CASE Clear(w)
  <2>1. pc[w] = "clear" /\ current[w].policy \in Policies
    BY <1>3 DEF Clear, At, RefinementInv, CacheInv, TypeOK, IsSnapshot
  <2>2. Abstract!Flush
    BY <1>3, <2>1, FlushStep DEF Clear
  <2> QED BY <2>2 DEF Abstract!Next
<1>4. CASE Fault(w) \/ Uncacheable(w) \/ Bypass(w) \/ Computed(w) \/ Unwind(w)
  BY <1>4, ComputeStep DEF Abstract!Next
<1>5. CASE PublishStale(w) \/ PublishNothing(w)
  BY <1>5, PublishInPlaceStep DEF Abstract!Next
<1>6. CASE Publish(w)
  BY <1>6, PublishStep DEF Abstract!Next
<1>7. CASE Return(w) /\ pc[w] = "return"
  BY <1>7, ReturnStep DEF Abstract!Next
<1>8. CASE \/ Stage(w) \/ Retry(w) \/ ClearLoad(w) \/ ClearRetry(w) \/ Count(w)
           \/ Return(w) /\ pc[w] # "return"
  BY <1>8, InvisibleStep
<1> QED BY <1>1, <1>2, <1>3, <1>4, <1>5, <1>6, <1>7, <1>8 DEF Start, Continue

LEMMA InitIsAbstract == Init => Abstract!Init
<1> SUFFICES ASSUME Init PROVE Abstract!Init
  OBVIOUS
<1>1. PICK at \in Addresses, gen \in Addresses, p \in Policies : root = Snapshot(at, gen, p)
  BY DEF Init
<1>2. root.policy = p /\ root.storage = EmptyStorage(p.capacity)
  BY <1>1 DEF Snapshot
<1>3. ResidentValues = << >>
  <2>1. Residents(root.storage) = {}
    BY <1>2 DEF EmptyStorage, Residents
  <2> QED BY <2>1 DEF ResidentValues
<1>4. PublishedOrder = << >>
  <2>1. p.kind = "Lru" => p.capacity \in Nat \ {0}
    BY PolicyAssumption
  <2>2. p.kind = "Lru" => RecencyOrder(EmptyStorage(p.capacity)) = << >>
    BY <2>1, EmptyIsThreaded
  <2> QED BY <1>2, <2>2 DEF PublishedOrder
<1>5. Calls = [w \in Workers |-> IdleCall]
  BY DEF Init, Calls, AbstractCall, IdleCall
<1> QED BY <1>2, <1>3, <1>4, <1>5 DEF Abstract!Init, Abstract!NoCall, IdleCall

(* The concurrent cache implements the exact least-recently-used cache:    *)
(* every recorded access takes effect at one instant, no lost swap,        *)
(* recycled address or reused slot shows, and only what a flush overtook   *)
(* goes unrecorded (docs/architecture/shared-state-cache.md).              *)
THEOREM CacheIsExact == Spec => ImplementsExactResidency
<1>1. RefinementInv /\ [Next]_vars => [Abstract!Next]_(Abstract!abstractVars)
  <2> SUFFICES ASSUME RefinementInv, [Next]_vars
               PROVE  Abstract!Next \/ UNCHANGED Abstract!abstractVars
    OBVIOUS
  <2>1. CASE UNCHANGED vars
    BY <2>1, SameRoot DEF vars, Abstract!abstractVars, Calls, AbstractCall
  <2>2. CASE Next
    BY <2>2, StepIsAbstract DEF Next
  <2> QED BY <2>1, <2>2
<1> QED BY InitIsAbstract, <1>1, RefinementInvariant, PTL
        DEF Spec, ImplementsExactResidency, Abstract!Spec

-----------------------------------------------------------------------------
(***************************************************************************)
(* The statistics.  Every operation moves four balances: residents against *)
(* insertions and evictions, requests and clears against operations begun, *)
(* and the two bounds on the outcomes of a miss, each with the workers that*)
(* are still on their way.  A step books a list of increments: with what   *)
(* is owed counted in, the totals grow by what the list names, and the     *)
(* increment itself changes no total.                                      *)
(***************************************************************************)
(* 1 for what is the case, 0 for what is not.                              *)
In(p) == IF p THEN 1 ELSE 0

(* How often a list of at most two owed increments names a counter.        *)
Due(list, c) == In(1 \in DOMAIN list /\ list[1] = c) + In(2 \in DOMAIN list /\ list[2] = c)

(* The lists of increments that a step leaves owed.                        *)
DebtLists == {<< >>} \cup {<<c>> : c \in CounterNames} \cup {<<"insertions", "evictions">>}

(* The increments of a counter that the workers owe when o is owed.        *)
DebtsOf(o, c) == {m \in Workers \X (1..2) : m[2] \in DOMAIN o[m[1]] /\ o[m[1]][m[2]] = c}

LEMMA PlacesAreFinite == IsFiniteSet(Workers \X (1..2))
<1>1. IsFiniteSet({1}) /\ IsFiniteSet({1} \cup {2})
  BY FS_Singleton, FS_AddElement
<1>2. {1} \cup {2} = 1..2
  OBVIOUS
<1>3. IsFiniteSet(1..2)
  BY ONLY <1>1, <1>2
<1> QED BY <1>3, WorkersAssumption, FS_Product

(* What is owed to a counter is what w owes and what the others do.        *)
LEMMA DebtsSplit ==
    ASSUME NEW o, NEW c, NEW w \in Workers
    PROVE  LET rest == {m \in DebtsOf(o, c) : m[1] # w} IN
           /\ IsFiniteSet(rest)
           /\ Cardinality(DebtsOf(o, c)) = Cardinality(rest) + Due(o[w], c)
<1> DEFINE debts == DebtsOf(o, c)
           rest == {m \in debts : m[1] # w}
           first == 1 \in DOMAIN o[w] /\ o[w][1] = c
           second == 2 \in DOMAIN o[w] /\ o[w][2] = c
<1>1. IsFiniteSet(rest)
  <2>1. IsFiniteSet(Workers \X (1..2))
    BY PlacesAreFinite
  <2>2. rest \in SUBSET (Workers \X (1..2))
    BY DEF DebtsOf
  <2> HIDE DEF rest
  <2> QED BY <2>1, <2>2, FS_Subset
<1>2. \A m : m \in debts <=> \/ m \in rest
                             \/ m = <<w, 1>> /\ first
                             \/ m = <<w, 2>> /\ second
  <2>1. \A m \in Workers \X (1..2) : m = <<m[1], m[2]>> /\ (m[2] = 1 \/ m[2] = 2)
    OBVIOUS
  <2>2. \A k \in 1..2 : <<w, k>> \in Workers \X (1..2) /\ <<w, k>>[1] = w /\ <<w, k>>[2] = k
    OBVIOUS
  <2>3. <<w, 1>> \in debts <=> first
    BY <2>2 DEF DebtsOf
  <2>4. <<w, 2>> \in debts <=> second
    BY <2>2 DEF DebtsOf
  <2>5. \A m \in debts : m[1] = w => m = <<w, 1>> \/ m = <<w, 2>>
    BY <2>1 DEF DebtsOf
  <2> HIDE DEF first, second, debts
  <2> QED BY <2>3, <2>4, <2>5
<1>3. <<w, 1>> \notin rest /\ <<w, 2>> \notin rest /\ <<w, 1>> # <<w, 2>>
  OBVIOUS
<1>4. Due(o[w], c) = In(first) + In(second)
  BY DEF Due
<1> HIDE DEF debts, rest, first, second
<1>5. Cardinality(rest) \in Nat
  BY <1>1, FS_CardinalityType
<1>6. /\ IsFiniteSet(rest \cup {<<w, 1>>}) /\ IsFiniteSet(rest \cup {<<w, 2>>})
      /\ Cardinality(rest \cup {<<w, 1>>}) = Cardinality(rest) + 1
      /\ Cardinality(rest \cup {<<w, 2>>}) = Cardinality(rest) + 1
  BY <1>1, <1>3, FS_AddElement
<1>7. Cardinality((rest \cup {<<w, 1>>}) \cup {<<w, 2>>}) = Cardinality(rest) + 2
  <2>1. <<w, 2>> \notin rest \cup {<<w, 1>>}
    BY <1>3
  <2>2. Cardinality((rest \cup {<<w, 1>>}) \cup {<<w, 2>>}) = Cardinality(rest \cup {<<w, 1>>}) + 1
    BY <1>6, <2>1, FS_AddElement
  <2> QED BY <1>5, <1>6, <2>2
<1>8. Cardinality(debts) = Cardinality(rest) + (In(first) + In(second))
  <2>1. CASE first /\ second
    <3>1. debts = (rest \cup {<<w, 1>>}) \cup {<<w, 2>>}
      BY <1>2, <2>1
    <3> QED BY <1>5, <1>7, <2>1, <3>1 DEF In
  <2>2. CASE first /\ ~second
    <3>1. debts = rest \cup {<<w, 1>>}
      BY <1>2, <2>2
    <3> QED BY <1>5, <1>6, <2>2, <3>1 DEF In
  <2>3. CASE ~first /\ second
    <3>1. debts = rest \cup {<<w, 2>>}
      BY <1>2, <2>3
    <3> QED BY <1>5, <1>6, <2>3, <3>1 DEF In
  <2>4. CASE ~first /\ ~second
    <3>1. debts = rest
      BY <1>2, <2>4
    <3> QED BY <1>5, <2>4, <3>1 DEF In
  <2> QED BY <2>1, <2>2, <2>3, <2>4
<1> QED BY <1>1, <1>4, <1>8 DEF debts, rest

(* A change of what one worker owes moves the totals by just that.         *)
LEMMA DebtsMove ==
    ASSUME NEW o, NEW p, NEW c, NEW w \in Workers,
           \A u \in Workers \ {w} : p[u] = o[u]
    PROVE  /\ Cardinality(DebtsOf(o, c)) \in Nat /\ Cardinality(DebtsOf(p, c)) \in Nat
           /\ Due(o[w], c) \in Nat /\ Due(p[w], c) \in Nat
           /\ Cardinality(DebtsOf(p, c)) + Due(o[w], c) = Cardinality(DebtsOf(o, c)) + Due(p[w], c)
<1> DEFINE before == {m \in DebtsOf(o, c) : m[1] # w}
           after == {m \in DebtsOf(p, c) : m[1] # w}
<1>1. before = after
  BY DEF DebtsOf
<1>2. IsFiniteSet(before) /\ Cardinality(DebtsOf(o, c)) = Cardinality(before) + Due(o[w], c)
  BY DebtsSplit
<1>3. Cardinality(DebtsOf(p, c)) = Cardinality(after) + Due(p[w], c)
  BY DebtsSplit
<1>4. Due(o[w], c) \in Nat /\ Due(p[w], c) \in Nat
  BY DEF Due, In
<1> HIDE DEF before, after
<1>5. Cardinality(before) \in Nat
  BY <1>2, FS_CardinalityType
<1> QED BY <1>1, <1>2, <1>3, <1>4, <1>5

(* A set of workers that w joins or leaves.                                *)
LEMMA PlacesMove ==
    ASSUME NEW A \in SUBSET Workers, NEW B \in SUBSET Workers, NEW w \in Workers,
           \A u \in Workers \ {w} : u \in A <=> u \in B
    PROVE  /\ Cardinality(A) \in Nat /\ Cardinality(B) \in Nat
           /\ Cardinality(B) + In(w \in A) = Cardinality(A) + In(w \in B)
<1>1. IsFiniteSet(A) /\ IsFiniteSet(B)
  BY WorkersAssumption, FS_Subset
<1>2. Cardinality(A) \in Nat /\ Cardinality(B) \in Nat
  BY <1>1, FS_CardinalityType
<1>3. CASE w \in A /\ w \in B
  <2>1. A = B
    BY <1>3
  <2> QED BY <1>2, <1>3, <2>1
<1>4. CASE w \notin A /\ w \in B
  <2>1. B = A \cup {w}
    BY <1>4
  <2>2. Cardinality(B) = Cardinality(A) + 1
    BY <1>1, <1>4, <2>1, FS_AddElement
  <2> QED BY <1>2, <1>4, <2>2 DEF In
<1>5. CASE w \in A /\ w \notin B
  <2>1. A = B \cup {w}
    BY <1>5
  <2>2. Cardinality(A) = Cardinality(B) + 1
    BY <1>1, <1>5, <2>1, FS_AddElement
  <2> QED BY <1>2, <1>5, <2>2 DEF In
<1>6. CASE w \notin A /\ w \notin B
  <2>1. A = B
    BY <1>6
  <2> QED BY <1>2, <1>6, <2>1
<1> QED BY <1>3, <1>4, <1>5, <1>6

(* Workers inside a request, and those of them that still account for a    *)
(* miss.                                                                   *)
Requesting == {w \in Workers : pc[w] \in {"compute", "publish", "swap"}}
Computing == {w \in Workers : \/ pc[w] = "compute"
                              \/ pc[w] \in {"publish", "swap"} /\ cold[w]}

Faulted == Total("faults") + Total("uncacheable_results") + Total("raced_publications")

(* The balances, with the requests that still have an outcome to come.     *)
BalanceInv ==
    /\ ResidencyBalance
    /\ RequestBalance
    /\ Faulted + Cardinality(Computing) <= Total("misses")
    /\ Faulted + Total("insertions") + Cardinality(Requesting) <= Total("misses") + Total("hits")

(* The inductive invariant of the statistics.                              *)
StatisticsInv ==
    /\ CacheInv
    /\ \A w \in Workers : owed[w] \in DebtLists
    /\ \A w \in Workers : cold[w] => pc[w] \in {"publish", "swap"}
    /\ IsFiniteSet(Residents(root.storage))
    /\ started \in 0..Operations /\ flushed \in Nat
    /\ BalanceInv

(* The totals grow by what a list names.                                   *)
Books(list) == \A c \in CounterNames : Total(c)' = Total(c) + Due(list, c)

(* The residents, with those flushed, grow by d.                           *)
Resides(d) ==
    /\ IsFiniteSet(Residents(root'.storage)) /\ flushed' \in Nat
    /\ Cardinality(Residents(root'.storage)) + flushed'
          = Cardinality(Residents(root.storage)) + flushed + d

OthersStay(w) == \A u \in Workers \ {w} : pc'[u] = pc[u] /\ cold'[u] = cold[u]

(* What a step of w books is what it does.                                 *)
Balanced(w, list, d) ==
    /\ Due(list, "insertions") = Due(list, "evictions") + d
    /\ Due(list, "hits") + Due(list, "misses") + Due(list, "clears") + In(pc'[w] = "clear") + started
          = In(pc[w] = "clear") + started'
    /\ Due(list, "faults") + Due(list, "uncacheable_results") + Due(list, "raced_publications")
          + In(w \in Computing') <= Due(list, "misses") + In(w \in Computing)
    /\ Due(list, "faults") + Due(list, "uncacheable_results") + Due(list, "raced_publications")
          + Due(list, "insertions") + In(w \in Requesting')
             <= Due(list, "misses") + Due(list, "hits") + In(w \in Requesting)

LEMMA TotalIsNat ==
    ASSUME TypeOK, NEW c \in CounterNames
    PROVE  Total(c) \in Nat
<1>1. counters[c] \in Nat
  BY CounterAssumption DEF TypeOK
<1>2. IsFiniteSet(Debts(c))
  <2>1. IsFiniteSet(Workers \X (1..2))
    BY PlacesAreFinite
  <2>2. Debts(c) \in SUBSET (Workers \X (1..2))
    BY DEF Debts
  <2> QED BY <2>1, <2>2, FS_Subset
<1> QED BY <1>1, <1>2, FS_CardinalityType DEF Total

LEMMA DueIsNat == \A list, c : Due(list, c) \in Nat
  BY DEF Due, In

LEMMA DueOf ==
    /\ \A c : Due(<< >>, c) = 0
    /\ \A c, x : Due(<<x>>, c) = In(x = c)
    /\ \A c, x, y : Due(<<x, y>>, c) = In(x = c) + In(y = c)
  BY DEF Due, In

(* A list left owed is booked at once; a step that owes nothing books none.*)
LEMMA BooksOwed ==
    ASSUME TypeOK, NEW w \in Workers, NEW list, Owe(w, list), owed[w] = << >>, counters' = counters
    PROVE  Books(list)
<1>1. owed'[w] = list /\ \A u \in Workers \ {w} : owed'[u] = owed[u]
  BY DEF TypeOK, Owe
<1>2. ASSUME NEW c \in CounterNames PROVE Total(c)' = Total(c) + Due(list, c)
  <2>1. Debts(c) = DebtsOf(owed, c) /\ Debts(c)' = DebtsOf(owed', c)
    BY DEF Debts, DebtsOf
  <2>2. /\ Cardinality(DebtsOf(owed, c)) \in Nat /\ Cardinality(DebtsOf(owed', c)) \in Nat
        /\ Due(owed'[w], c) \in Nat
        /\ Cardinality(DebtsOf(owed', c)) + Due(owed[w], c)
              = Cardinality(DebtsOf(owed, c)) + Due(owed'[w], c)
    <3>1. \A u \in Workers \ {w} : owed'[u] = owed[u]
      BY <1>1
    <3> QED BY ONLY <3>1, DebtsMove
  <2>3. Due(<< >>, c) = 0
    BY DueOf
  <2>4. counters[c] \in Nat /\ counters'[c] = counters[c]
    BY CounterAssumption DEF TypeOK
  <2> QED BY <1>1, <2>1, <2>2, <2>3, <2>4 DEF Total
<1> QED BY <1>2 DEF Books

LEMMA BooksNothing ==
    ASSUME TypeOK, UNCHANGED <<owed, counters>>
    PROVE  Books(<< >>)
<1>1. \A c \in CounterNames : Total(c)' = Total(c)
  BY DEF Total, Debts
<1> QED BY <1>1, DueOf, TotalIsNat DEF Books

(* An increment settles what it was owed, as long as it does not saturate. *)
LEMMA BooksCount ==
    ASSUME TypeOK, NEW w \in Workers, Count(w), owed[w] \in DebtLists,
           counters[Head(owed[w])] < CounterMax
    PROVE  Books(<< >>) /\ owed'[w] \in DebtLists
<1> DEFINE x == Head(owed[w])
<1>1. /\ owed[w] # << >>
      /\ owed' = [owed EXCEPT ![w] = Tail(owed[w])]
      /\ counters' = [counters EXCEPT ![x] = IF @ < CounterMax THEN @ + 1 ELSE @]
  BY DEF Count, Owe
<1>2. /\ x \in CounterNames /\ Tail(owed[w]) \in DebtLists
      /\ \A c : Due(owed[w], c) = Due(Tail(owed[w]), c) + In(x = c)
  <2>1. CASE owed[w] \in {<<c>> : c \in CounterNames}
    <3>1. PICK y \in CounterNames : owed[w] = <<y>>
      BY <2>1
    <3>2. x = y /\ Tail(owed[w]) = << >>
      BY <3>1
    <3> QED BY <3>1, <3>2, DueOf DEF DebtLists, In
  <2>2. CASE owed[w] = <<"insertions", "evictions">>
    <3>1. x = "insertions" /\ Tail(owed[w]) = <<"evictions">>
      BY <2>2
    <3>2. "insertions" \in CounterNames /\ "evictions" \in CounterNames
      BY DEF CounterNames
    <3>3. \A c : Due(owed[w], c) = In("insertions" = c) + In("evictions" = c)
      BY <2>2, DueOf
    <3>4. \A c : Due(<<"evictions">>, c) = In("evictions" = c)
      BY DueOf
    <3> HIDE DEF x
    <3>5. Tail(owed[w]) \in DebtLists
      BY <3>1, <3>2 DEF DebtLists
    <3>6. \A c : Due(owed[w], c) = Due(Tail(owed[w]), c) + In(x = c)
      <4>1. ASSUME NEW c PROVE Due(owed[w], c) = Due(Tail(owed[w]), c) + In(x = c)
        <5>1. /\ Due(owed[w], c) = In("insertions" = c) + In("evictions" = c)
              /\ Due(Tail(owed[w]), c) = In("evictions" = c)
          BY <3>1, <3>3, <3>4
        <5>2. In("insertions" = c) \in Nat /\ In("evictions" = c) \in Nat
          BY DEF In
        <5> QED BY ONLY <3>1, <5>1, <5>2
      <4> QED BY <4>1
    <3> QED BY <3>1, <3>2, <3>5, <3>6
  <2> QED BY <1>1, <2>1, <2>2 DEF DebtLists
<1> HIDE DEF x
<1>3. owed'[w] = Tail(owed[w]) /\ \A u \in Workers \ {w} : owed'[u] = owed[u]
  BY <1>1 DEF TypeOK
<1>4. ASSUME NEW c \in CounterNames PROVE Total(c)' = Total(c)
  <2>1. Debts(c) = DebtsOf(owed, c) /\ Debts(c)' = DebtsOf(owed', c)
    BY DEF Debts, DebtsOf
  <2>2. /\ Cardinality(DebtsOf(owed, c)) \in Nat /\ Cardinality(DebtsOf(owed', c)) \in Nat
        /\ Due(owed[w], c) \in Nat /\ Due(owed'[w], c) \in Nat
        /\ Cardinality(DebtsOf(owed', c)) + Due(owed[w], c)
              = Cardinality(DebtsOf(owed, c)) + Due(owed'[w], c)
    BY <1>3, DebtsMove
  <2>3. Due(owed[w], c) = Due(owed'[w], c) + In(x = c)
    BY <1>2, <1>3
  <2>4. counters[c] \in Nat /\ counters'[c] = counters[c] + In(x = c)
    <3>1. counters \in [CounterNames -> 0..CounterMax]
      BY DEF TypeOK
    <3>2. counters[x] < CounterMax
      BY DEF x
    <3> QED BY <1>1, <1>2, <3>1, <3>2, CounterAssumption DEF In
  <2>5. In(x = c) \in Nat
    BY DEF In
  <2> QED BY <2>1, <2>2, <2>3, <2>4, <2>5 DEF Total
<1>5. Books(<< >>)
  BY <1>4, DueOf, TotalIsNat DEF Books
<1> QED BY <1>2, <1>3, <1>5

(* A step that books what it does keeps the balances.                      *)
LEMMA BalanceKept ==
    ASSUME TypeOK, TypeOK', BalanceInv, NEW w \in Workers, OthersStay(w),
           IsFiniteSet(Residents(root.storage)), started \in Nat, flushed \in Nat, started' \in Nat,
           NEW list, NEW d \in 0..1, Books(list), Resides(d), Balanced(w, list, d)
    PROVE  BalanceInv'
<1>1. /\ Total("hits")' = Total("hits") + Due(list, "hits")
      /\ Total("misses")' = Total("misses") + Due(list, "misses")
      /\ Total("faults")' = Total("faults") + Due(list, "faults")
      /\ Total("uncacheable_results")' = Total("uncacheable_results") + Due(list, "uncacheable_results")
      /\ Total("insertions")' = Total("insertions") + Due(list, "insertions")
      /\ Total("evictions")' = Total("evictions") + Due(list, "evictions")
      /\ Total("raced_publications")' = Total("raced_publications") + Due(list, "raced_publications")
      /\ Total("clears")' = Total("clears") + Due(list, "clears")
  BY DEF Books, CounterNames
<1>2. /\ Total("hits") \in Nat /\ Total("misses") \in Nat /\ Total("faults") \in Nat
      /\ Total("uncacheable_results") \in Nat /\ Total("insertions") \in Nat
      /\ Total("evictions") \in Nat /\ Total("raced_publications") \in Nat /\ Total("clears") \in Nat
  BY TotalIsNat DEF CounterNames
<1>3. \A c : Due(list, c) \in Nat
  BY DueIsNat
<1>4. Cardinality(Residents(root.storage)) \in Nat /\ Cardinality(Residents(root'.storage)) \in Nat
      /\ flushed' \in Nat
  BY FS_CardinalityType DEF Resides
<1>5. ResidencyBalance'
  <2>1. Total("insertions") = Total("evictions") + Cardinality(Residents(root.storage)) + flushed
    BY DEF BalanceInv, ResidencyBalance
  <2>2. Due(list, "insertions") = Due(list, "evictions") + d
    BY DEF Balanced
  <2>3. Cardinality(Residents(root'.storage)) + flushed'
          = Cardinality(Residents(root.storage)) + flushed + d
    BY DEF Resides
  <2>4. Total("insertions")' = Total("evictions")' + Cardinality(Residents(root'.storage)) + flushed'
    BY <1>1, <1>2, <1>3, <1>4, <2>1, <2>2, <2>3
  <2> QED BY <2>4 DEF ResidencyBalance
<1>6. /\ Cardinality(Clearing) \in Nat /\ Cardinality(Clearing') \in Nat
      /\ Cardinality(Clearing') + In(w \in Clearing) = Cardinality(Clearing) + In(w \in Clearing')
  <2>1. \A u \in Workers \ {w} : u \in Clearing <=> u \in Clearing'
    BY DEF OthersStay, Clearing
  <2>2. Clearing \in SUBSET Workers /\ Clearing' \in SUBSET Workers
    BY DEF Clearing
  <2> QED BY ONLY <2>1, <2>2, w \in Workers, PlacesMove
<1>7. /\ Cardinality(Computing) \in Nat /\ Cardinality(Computing') \in Nat
      /\ Cardinality(Computing') + In(w \in Computing) = Cardinality(Computing) + In(w \in Computing')
  <2>1. \A u \in Workers \ {w} : u \in Computing <=> u \in Computing'
    BY DEF OthersStay, Computing
  <2>2. Computing \in SUBSET Workers /\ Computing' \in SUBSET Workers
    BY DEF Computing
  <2> QED BY ONLY <2>1, <2>2, w \in Workers, PlacesMove
<1>8. /\ Cardinality(Requesting) \in Nat /\ Cardinality(Requesting') \in Nat
      /\ Cardinality(Requesting') + In(w \in Requesting) = Cardinality(Requesting) + In(w \in Requesting')
  <2>1. \A u \in Workers \ {w} : u \in Requesting <=> u \in Requesting'
    BY DEF OthersStay, Requesting
  <2>2. Requesting \in SUBSET Workers /\ Requesting' \in SUBSET Workers
    BY DEF Requesting
  <2> QED BY ONLY <2>1, <2>2, w \in Workers, PlacesMove
<1>9. /\ (w \in Clearing) = (pc[w] = "clear") /\ (w \in Clearing') = (pc'[w] = "clear")
  BY DEF Clearing
<1>10. RequestBalance'
  <2>1. Total("hits") + Total("misses") + Total("clears") + Cardinality(Clearing) = started
    BY DEF BalanceInv, RequestBalance
  <2>2. Due(list, "hits") + Due(list, "misses") + Due(list, "clears") + In(w \in Clearing') + started
          = In(w \in Clearing) + started'
    BY <1>9 DEF Balanced
  <2>3. In(w \in Clearing) \in Nat /\ In(w \in Clearing') \in Nat
    BY DEF In
  <2>4. Total("hits")' + Total("misses")' + Total("clears")' + Cardinality(Clearing') = started'
    BY <1>1, <1>2, <1>3, <1>6, <2>1, <2>2, <2>3
  <2> QED BY <2>4 DEF RequestBalance
<1>11. (Faulted + Cardinality(Computing) <= Total("misses"))'
  <2>1. Total("faults") + Total("uncacheable_results") + Total("raced_publications")
           + Cardinality(Computing) <= Total("misses")
    BY DEF BalanceInv, Faulted
  <2>2. Due(list, "faults") + Due(list, "uncacheable_results") + Due(list, "raced_publications")
          + In(w \in Computing') <= Due(list, "misses") + In(w \in Computing)
    BY DEF Balanced
  <2>3. In(w \in Computing) \in Nat /\ In(w \in Computing') \in Nat
    BY DEF In
  <2>4. Total("faults")' + Total("uncacheable_results")' + Total("raced_publications")'
           + Cardinality(Computing') <= Total("misses")'
    BY <1>1, <1>2, <1>3, <1>7, <2>1, <2>2, <2>3
  <2> QED BY <2>4 DEF Faulted
<1>12. (Faulted + Total("insertions") + Cardinality(Requesting) <= Total("misses") + Total("hits"))'
  <2>1. Total("faults") + Total("uncacheable_results") + Total("raced_publications")
           + Total("insertions") + Cardinality(Requesting) <= Total("misses") + Total("hits")
    BY DEF BalanceInv, Faulted
  <2>2. Due(list, "faults") + Due(list, "uncacheable_results") + Due(list, "raced_publications")
          + Due(list, "insertions") + In(w \in Requesting')
             <= Due(list, "misses") + Due(list, "hits") + In(w \in Requesting)
    BY DEF Balanced
  <2>3. In(w \in Requesting) \in Nat /\ In(w \in Requesting') \in Nat
    BY DEF In
  <2>4. Total("faults")' + Total("uncacheable_results")' + Total("raced_publications")'
           + Total("insertions")' + Cardinality(Requesting') <= Total("misses")' + Total("hits")'
    BY <1>1, <1>2, <1>3, <1>8, <2>1, <2>2, <2>3
  <2> QED BY <2>4 DEF Faulted
<1> QED BY <1>5, <1>10, <1>11, <1>12 DEF BalanceInv

-----------------------------------------------------------------------------
(* The residents.                                                          *)
LEMMA SameResidents ==
    ASSUME root' = root, Flushed, IsFiniteSet(Residents(root.storage)), flushed \in Nat
    PROVE  Resides(0)
<1>1. flushed' = flushed
  BY DEF Flushed
<1>2. Cardinality(Residents(root.storage)) \in Nat
  BY FS_CardinalityType
<1> QED BY <1>1, <1>2 DEF Resides

(* A flush moves the residents to those flushed.                           *)
LEMMA FlushedResidents ==
    ASSUME CacheInv, NEW p \in Policies, Replacement(p), Flushed,
           IsFiniteSet(Residents(root.storage)), flushed \in Nat
    PROVE  Resides(0)
<1>1. PICK at \in Addresses \ HeldRoots, gen \in Addresses \ HeldGenerations :
         root' = Snapshot(at, gen, p)
  BY DEF Replacement
<1>2. root'.generation = gen /\ Residents(root'.storage) = {}
  BY <1>1 DEF Snapshot, EmptyStorage, Residents
<1>3. root'.generation # root.generation
  BY <1>1, <1>2 DEF HeldGenerations
<1>4. flushed' = flushed + Cardinality(Residents(root.storage))
  BY <1>3 DEF Flushed
<1>5. IsFiniteSet({}) /\ Cardinality({}) = 0
  BY FS_EmptySet
<1>6. Cardinality(Residents(root.storage)) \in Nat
  BY FS_CardinalityType
<1> QED BY <1>2, <1>4, <1>5, <1>6 DEF Resides

(* Recording adds a resident unless the id was one or displaces one.       *)
LEMMA RecordedResidents ==
    ASSUME NEW r, IsSnapshot(r), StorageInv(r), r.policy.kind # "NoCache",
           NEW i \in Ids, NEW v \in Workers,
           ~(Holds(r, i) /\ Touch(r, i) = NoSlot), IsFiniteSet(Residents(r.storage))
    PROVE  LET u == Recorded(r, i, v, IF Holds(r, i) THEN Touch(r, i) ELSE NoSlot) IN
           /\ IsFiniteSet(Residents(u))
           /\ Cardinality(Residents(u))
                 = Cardinality(Residents(r.storage)) + In(~Holds(r, i) /\ ~Evicts(r, i))
<1> DEFINE s == r.storage
           touch == IF Holds(r, i) THEN Touch(r, i) ELSE NoSlot
           u == Recorded(r, i, v, touch)
<1>1. r.policy.kind = "CacheAll" \/ r.policy.kind = "Lru"
  BY PolicyAssumption DEF IsSnapshot, Kinds
<1>2. Cardinality(Residents(s)) \in Nat
  BY FS_CardinalityType
<1>3. i \notin Residents(s) => /\ IsFiniteSet(Residents(s) \cup {i})
                               /\ Cardinality(Residents(s) \cup {i}) = Cardinality(Residents(s)) + 1
  BY FS_AddElement
<1>4. CASE r.policy.kind = "CacheAll"
  <2>1. ~Holds(r, i) /\ i \notin Residents(s) /\ ~Evicts(r, i)
    BY <1>4 DEF Holds, Touch, Evicts
  <2>2. u = [s EXCEPT !.entries = WithEntry(s.entries, {}, i, NoSlot, v)]
    BY <1>4 DEF Recorded
  <2>3. s \in [capacity : Nat, entries : {s.entries}, links : {s.links},
               len : Nat, head : Nat, tail : Nat]
    BY DEF IsSnapshot, IsStorage
  <2>4. u.entries = WithEntry(s.entries, {}, i, NoSlot, v)
    BY <2>2, <2>3
  <2>5. Residents(u) = Residents(s) \cup {i}
    BY <2>4 DEF Residents, WithEntry
  <2> QED BY <1>2, <1>3, <2>1, <2>5 DEF In
<1>5. CASE r.policy.kind = "Lru"
  <2>1. /\ Threaded(s, Ids, Workers) /\ LruInvariant(s, Ids, Workers)
        /\ IsStorage(s, Ids, Workers) /\ IndexCoherent(s)
    BY <1>5, ThreadedFacts DEF StorageInv
  <2>2. CASE Holds(r, i)
    <3>1. i \in Residents(s) /\ touch = s.entries[i].slot /\ touch # NoSlot
      BY <1>5, <2>2 DEF Holds, Touch, TouchOf
    <3>2. touch \in 1..s.len
      BY <2>1, <3>1 DEF IndexCoherent
    <3>3. u = TouchSlot(s, touch)
      BY <1>5, <3>1 DEF Recorded
    <3> HIDE DEF touch, u, s
    <3>4. u.entries = s.entries
      BY <2>1, <3>2, <3>3, TouchKeepsInvariant
    <3> QED BY <1>2, <2>2, <3>4 DEF Residents, In, s, u, touch
  <2>3. CASE ~Holds(r, i)
    <3>1. i \notin Residents(s) /\ u = InsertId(s, i, v)
      BY <1>5, <2>3 DEF Holds, Recorded
    <3>2. Evicts(r, i) <=> Full(s)
      BY <1>5, <2>3 DEF Evicts
    <3>3. Full(s) <=> s.len = s.capacity
      BY <2>1, ResidentCount DEF Full
    <3>4. s.len \in Nat /\ s.capacity \in Nat /\ s.len <= s.capacity
      BY <2>1 DEF LruInvariant, IsStorage
    <3>5. CASE Full(s)
      <4>1. u = Replace(s, i, v) /\ s.len = s.capacity
        BY <3>1, <3>3, <3>5 DEF InsertId
      <4>2. /\ u.entries = WithEntry(s.entries, Displaced(s), i, s.head, v)
            /\ s.head \in 1..s.len
        <5> HIDE DEF u, s
        <5> QED BY <2>1, <3>1, <4>1, ReplaceKeepsInvariant
      <4>3. Residents(u) = (Residents(s) \ Displaced(s)) \cup {i}
        BY <4>2 DEF WithEntry, Residents
      <4>4. PICK j \in Residents(s) : Displaced(s) = {j}
        BY <2>1, <4>2 DEF Displaced, IndexCoherent
      <4>5. IsFiniteSet(Residents(s) \ {j}) /\ Cardinality(Residents(s) \ {j}) = Cardinality(Residents(s)) - 1
        BY <4>4, FS_RemoveElement
      <4>6. i \notin Residents(s) \ {j}
        BY <3>1
      <4>7. /\ IsFiniteSet((Residents(s) \ {j}) \cup {i})
            /\ Cardinality((Residents(s) \ {j}) \cup {i}) = Cardinality(Residents(s) \ {j}) + 1
        BY <4>5, <4>6, FS_AddElement
      <4>8. IsFiniteSet(Residents(u)) /\ Cardinality(Residents(u)) = Cardinality(Residents(s))
        <5>1. Residents(u) = (Residents(s) \ {j}) \cup {i}
          BY <4>3, <4>4
        <5> HIDE DEF u, s
        <5> QED BY <1>2, <4>5, <4>7, <5>1
      <4>9. In(~Holds(r, i) /\ ~Evicts(r, i)) = 0
        BY <3>2, <3>5 DEF In
      <4> QED BY <1>2, <4>8, <4>9
    <3>6. CASE ~Full(s)
      <4>1. u = Grow(s, i, v) /\ s.len < s.capacity
        BY <3>1, <3>3, <3>4, <3>6 DEF InsertId
      <4>2. u.entries = WithEntry(s.entries, {}, i, s.len + 1, v)
        <5> HIDE DEF u, s
        <5> QED BY <2>1, <3>1, <4>1, GrowKeepsInvariant
      <4>3. Residents(u) = Residents(s) \cup {i}
        BY <4>2 DEF WithEntry, Residents
      <4>4. In(~Holds(r, i) /\ ~Evicts(r, i)) = 1
        BY <2>3, <3>2, <3>6 DEF In
      <4> QED BY <1>2, <1>3, <3>1, <4>3, <4>4
    <3> QED BY <3>5, <3>6
  <2> QED BY <2>2, <2>3
<1> QED BY <1>1, <1>4, <1>5

(* A publication that inserts without evicting adds one resident.          *)
LEMMA PublishedResidents ==
    ASSUME CacheInv, NEW w \in Workers, Publish(w), Flushed,
           IsFiniteSet(Residents(root.storage)), flushed \in Nat
    PROVE  Resides(In(~Holds(current[w], id[w]) /\ ~Evicts(current[w], id[w])))
<1> DEFINE r == current[w]
           i == id[w]
<1>1. pc[w] = "swap"
  BY DEF Publish, At
<1>2. /\ r = root /\ root'.generation = root.generation /\ Canonical(w) \in Workers
  BY PublishFacts
<1>3. /\ IsSnapshot(r) /\ StorageInv(r) /\ r.policy.kind # "NoCache"
      /\ i \in Ids /\ ~(Holds(r, i) /\ Touch(r, i) = NoSlot)
  BY <1>1 DEF CacheInv, TypeOK, GuardInv, SwapInv
<1>4. root'.storage = Staged(w)
  <2>1. PICK at : root' = [r EXCEPT !.at = at, !.storage = Staged(w)]
    BY DEF Publish
  <2>2. r \in [at : Addresses, generation : Addresses, policy : Policies, storage : {r.storage}]
    BY <1>3 DEF IsSnapshot
  <2> QED BY <2>1, <2>2
<1>5. Staged(w) = Recorded(r, i, Canonical(w), IF Holds(r, i) THEN Touch(r, i) ELSE NoSlot)
  BY DEF Staged
<1> HIDE DEF r, i
<1>6. /\ IsFiniteSet(Residents(Staged(w)))
      /\ Cardinality(Residents(Staged(w)))
            = Cardinality(Residents(r.storage)) + In(~Holds(r, i) /\ ~Evicts(r, i))
  BY <1>2, <1>3, <1>5, RecordedResidents
<1>7. flushed' = flushed
  BY <1>2 DEF Flushed
<1>8. Cardinality(Residents(root.storage)) \in Nat
  BY FS_CardinalityType
<1>9. In(~Holds(r, i) /\ ~Evicts(r, i)) \in Nat
  BY DEF In
<1> QED BY <1>2, <1>4, <1>6, <1>7, <1>8, <1>9 DEF Resides, r, i

(* Every counter stays below the bound, so that none saturates.            *)
LEMMA NoSaturation ==
    ASSUME StatisticsInv, NEW w \in Workers, owed[w] # << >>
    PROVE  counters[Head(owed[w])] < CounterMax
<1> DEFINE c == Head(owed[w])
<1>1. c \in CounterNames /\ 1 \in DOMAIN owed[w] /\ owed[w][1] = c
  BY DEF StatisticsInv, DebtLists, CounterNames
<1>2. Total(c) <= Operations
  <2>1. /\ Total("hits") \in Nat /\ Total("misses") \in Nat /\ Total("faults") \in Nat
        /\ Total("uncacheable_results") \in Nat /\ Total("insertions") \in Nat
        /\ Total("evictions") \in Nat /\ Total("raced_publications") \in Nat
        /\ Total("clears") \in Nat
    BY TotalIsNat DEF CounterNames, StatisticsInv, CacheInv
  <2>2. /\ Cardinality(Clearing) \in Nat /\ Cardinality(Computing) \in Nat
        /\ Cardinality(Requesting) \in Nat /\ Cardinality(Residents(root.storage)) \in Nat
    <3>1. Cardinality(Clearing) \in Nat
      BY PlacesMove DEF Clearing
    <3>2. Cardinality(Computing) \in Nat
      BY PlacesMove DEF Computing
    <3>3. Cardinality(Requesting) \in Nat
      BY PlacesMove DEF Requesting
    <3> QED BY <3>1, <3>2, <3>3, FS_CardinalityType DEF StatisticsInv
  <2>3. /\ started \in Nat /\ Operations \in Nat /\ started <= Operations /\ flushed \in Nat
    BY OperationsAssumption, CounterAssumption DEF StatisticsInv
  <2>4. /\ Total("insertions") = Total("evictions") + Cardinality(Residents(root.storage)) + flushed
        /\ Total("hits") + Total("misses") + Total("clears") + Cardinality(Clearing) = started
        /\ Total("faults") + Total("uncacheable_results") + Total("raced_publications")
              + Cardinality(Computing) <= Total("misses")
        /\ Total("faults") + Total("uncacheable_results") + Total("raced_publications")
              + Total("insertions") + Cardinality(Requesting) <= Total("misses") + Total("hits")
    BY DEF StatisticsInv, BalanceInv, ResidencyBalance, RequestBalance, Faulted
  <2>5. /\ Total("hits") <= Operations /\ Total("misses") <= Operations
        /\ Total("clears") <= Operations /\ Total("faults") <= Operations
        /\ Total("uncacheable_results") <= Operations
        /\ Total("raced_publications") <= Operations
        /\ Total("insertions") <= Operations /\ Total("evictions") <= Operations
    <3>1. \A h, m, cl, n, st, op \in Nat :
             h + m + cl + n = st /\ st <= op => h <= op /\ m <= op /\ cl <= op /\ m + h <= op
      OBVIOUS
    <3>2. /\ Total("hits") <= Operations /\ Total("misses") <= Operations
          /\ Total("clears") <= Operations /\ Total("misses") + Total("hits") <= Operations
      BY ONLY <2>1, <2>2, <2>3, <2>4, <3>1
    <3>3. \A f, u, r, i, n, mh, op \in Nat :
             f + u + r + i + n <= mh /\ mh <= op => f <= op /\ u <= op /\ r <= op /\ i <= op
      OBVIOUS
    <3>4. Total("misses") + Total("hits") \in Nat
      BY <2>1
    <3>5. /\ Total("faults") <= Operations /\ Total("uncacheable_results") <= Operations
          /\ Total("raced_publications") <= Operations /\ Total("insertions") <= Operations
      BY ONLY <2>1, <2>2, <2>3, <2>4, <3>2, <3>3, <3>4
    <3>6. \A i, e, n, fl, op \in Nat : i = e + n + fl /\ i <= op => e <= op
      OBVIOUS
    <3>7. Total("evictions") <= Operations
      BY ONLY <2>1, <2>2, <2>3, <2>4, <3>5, <3>6
    <3> QED BY <3>2, <3>5, <3>7
  <2> QED BY <1>1, <2>5 DEF CounterNames
<1>3. Cardinality(Debts(c)) >= 1
  <2> DEFINE rest == {m \in DebtsOf(owed, c) : m[1] # w}
  <2>1. IsFiniteSet(rest) /\ Cardinality(DebtsOf(owed, c)) = Cardinality(rest) + Due(owed[w], c)
    BY DebtsSplit
  <2> HIDE DEF rest
  <2>2. Cardinality(rest) \in Nat
    BY <2>1, FS_CardinalityType
  <2>3. Due(owed[w], c) \in Nat /\ Due(owed[w], c) >= 1
    BY <1>1 DEF Due, In
  <2>4. Debts(c) = DebtsOf(owed, c)
    BY DEF Debts, DebtsOf
  <2> QED BY <2>1, <2>2, <2>3, <2>4
<1>4. counters[c] \in Nat /\ Cardinality(Debts(c)) \in Nat
  <2>1. counters[c] \in Nat
    BY <1>1, CounterAssumption DEF StatisticsInv, CacheInv, TypeOK
  <2>2. Debts(c) = DebtsOf(owed, c)
    BY DEF Debts, DebtsOf
  <2>3. Cardinality(DebtsOf(owed, c)) \in Nat
    BY DebtsMove
  <2> QED BY <2>1, <2>2, <2>3
<1>5. Operations \in Nat /\ Operations <= CounterMax
  BY OperationsAssumption, CounterAssumption
<1> HIDE DEF c
<1> QED BY <1>2, <1>3, <1>4, <1>5, CounterAssumption DEF Total, c

(* A step that books a list.                                               *)
LEMMA StatisticsKept ==
    ASSUME StatisticsInv, CacheInv', NEW w \in Workers, OthersStay(w),
           cold'[w] => pc'[w] \in {"publish", "swap"},
           started' \in 0..Operations, NEW list, NEW d \in 0..1,
           Books(list), Resides(d), Balanced(w, list, d),
           owed'[w] \in DebtLists, \A u \in Workers \ {w} : owed'[u] = owed[u]
    PROVE  StatisticsInv'
<1>1. BalanceInv'
  <2>1. TypeOK /\ TypeOK' /\ BalanceInv
    BY DEF StatisticsInv, CacheInv
  <2>2. started \in Nat /\ started' \in Nat /\ flushed \in Nat /\ IsFiniteSet(Residents(root.storage))
    BY OperationsAssumption, CounterAssumption DEF StatisticsInv
  <2> QED BY <2>1, <2>2, BalanceKept
<1>2. \A u \in Workers : owed'[u] \in DebtLists
  BY DEF StatisticsInv
<1>3. IsFiniteSet(Residents(root'.storage)) /\ flushed' \in Nat
  BY DEF Resides
<1>4. \A u \in Workers : cold'[u] => pc'[u] \in {"publish", "swap"}
  BY DEF StatisticsInv, OthersStay
<1> QED BY <1>1, <1>2, <1>3, <1>4 DEF StatisticsInv

(* The root and the counters stay; w leaves a list owed.                   *)
LEMMA OwingStep ==
    ASSUME StatisticsInv, CacheInv', NEW w \in Workers, OthersStay(w), started' \in 0..Operations,
           cold'[w] => pc'[w] \in {"publish", "swap"},
           root' = root, Flushed, counters' = counters,
           NEW list \in DebtLists, owed[w] = << >>, Owe(w, list), Balanced(w, list, 0)
    PROVE  StatisticsInv'
<1>1. Books(list)
  BY BooksOwed DEF StatisticsInv, CacheInv
<1>2. Resides(0)
  BY SameResidents DEF StatisticsInv
<1>3. owed'[w] = list /\ \A u \in Workers \ {w} : owed'[u] = owed[u]
  BY DEF Owe, StatisticsInv, CacheInv, TypeOK
<1> QED BY <1>1, <1>2, <1>3, StatisticsKept

(* The root and the counters stay, and nothing is owed.                    *)
LEMMA SilentStep ==
    ASSUME StatisticsInv, CacheInv', NEW w \in Workers, OthersStay(w), started' \in 0..Operations,
           cold'[w] => pc'[w] \in {"publish", "swap"},
           root' = root, Flushed, UNCHANGED <<owed, counters>>, Balanced(w, << >>, 0)
    PROVE  StatisticsInv'
<1>1. Books(<< >>)
  BY BooksNothing DEF StatisticsInv, CacheInv
<1>2. Resides(0)
  BY SameResidents DEF StatisticsInv
<1>3. owed'[w] \in DebtLists /\ \A u \in Workers \ {w} : owed'[u] = owed[u]
  BY DEF StatisticsInv
<1> QED BY <1>1, <1>2, <1>3, StatisticsKept

(* What the lists that steps leave owed name.                              *)
LEMMA DueOfOne ==
    /\ \A c \in CounterNames : Due(<< >>, c) = 0
    /\ \A x, c \in CounterNames : Due(<<x>>, c) = IF x = c THEN 1 ELSE 0
    /\ \A c \in CounterNames :
          Due(<<"insertions", "evictions">>, c) = IF c = "insertions" \/ c = "evictions" THEN 1 ELSE 0
<1>1. \A c \in CounterNames : In("insertions" = c) + In("evictions" = c)
                                = IF c = "insertions" \/ c = "evictions" THEN 1 ELSE 0
  BY DEF In
<1> QED BY <1>1, DueOf DEF In, CounterNames

(* Where a step takes w.                                                   *)
LEMMA AnswerLeaves ==
    ASSUME TypeOK, NEW w \in Workers, NEW v, Answer(w, v)
    PROVE  pc'[w] = "return" /\ ~cold'[w] /\ OthersStay(w)
  BY DEF Answer, Goto, Release, TypeOK, OthersStay

LEMMA GotoMoves ==
    ASSUME TypeOK, NEW w \in Workers, NEW label, Goto(w, label), UNCHANGED cold
    PROVE  pc'[w] = label /\ cold'[w] = cold[w] /\ OthersStay(w)
  BY DEF Goto, TypeOK, OthersStay

LEMMA IdleIsCool ==
    ASSUME StatisticsInv, NEW w \in Workers, pc[w] \notin {"publish", "swap"}
    PROVE  ~cold[w]
  BY DEF StatisticsInv

(* The starts of operations.                                               *)
LEMMA HitIsBooked ==
    ASSUME StatisticsInv, CacheInv', NEW w \in Workers, NEW i \in Ids,
           HitInPlace(w, i) \/ HitToTouch(w, i), Flushed, started < Operations, started' = started + 1
    PROVE  StatisticsInv'
<1>0. TypeOK
  BY DEF StatisticsInv, CacheInv
<1>1. /\ pc[w] = "idle" /\ owed[w] = << >> /\ UNCHANGED <<root, counters>>
      /\ Owe(w, <<"hits">>)
  BY DEF HitInPlace, HitToTouch, At
<1>2. pc'[w] \in {"return", "publish"} /\ ~cold'[w] /\ OthersStay(w)
  BY <1>0, <1>1, AnswerLeaves, GotoMoves, IdleIsCool DEF HitInPlace, HitToTouch
<1>3. started' \in 0..Operations /\ started \in Nat
  BY OperationsAssumption, CounterAssumption DEF StatisticsInv
<1>4. <<"hits">> \in DebtLists
  BY DEF DebtLists, CounterNames
<1>5. Balanced(w, <<"hits">>, 0)
  BY <1>1, <1>2, <1>3, DueOfOne DEF Balanced, CounterNames, In, Computing, Requesting
<1> QED BY <1>1, <1>2, <1>3, <1>4, <1>5, OwingStep

LEMMA MissIsBooked ==
    ASSUME StatisticsInv, CacheInv', NEW w \in Workers, NEW i \in Ids,
           Miss(w, i), Flushed, started < Operations, started' = started + 1
    PROVE  StatisticsInv'
<1>0. TypeOK
  BY DEF StatisticsInv, CacheInv
<1>1. /\ pc[w] = "idle" /\ owed[w] = << >> /\ UNCHANGED <<root, counters>>
      /\ Owe(w, <<"misses">>)
  BY DEF Miss, At
<1>2. pc'[w] = "compute" /\ ~cold'[w] /\ OthersStay(w)
  BY <1>0, <1>1, GotoMoves, IdleIsCool DEF Miss
<1>3. started' \in 0..Operations /\ started \in Nat
  BY OperationsAssumption, CounterAssumption DEF StatisticsInv
<1>4. <<"misses">> \in DebtLists
  BY DEF DebtLists, CounterNames
<1>5. Balanced(w, <<"misses">>, 0)
  BY <1>1, <1>2, <1>3, DueOfOne DEF Balanced, CounterNames, In, Computing, Requesting
<1> QED BY <1>1, <1>2, <1>3, <1>4, <1>5, OwingStep

LEMMA ClearIsBegun ==
    ASSUME StatisticsInv, CacheInv', NEW w \in Workers,
           ClearLoad(w), Flushed, started < Operations, started' = started + 1
    PROVE  StatisticsInv'
<1>0. TypeOK
  BY DEF StatisticsInv, CacheInv
<1>1. pc[w] = "idle" /\ UNCHANGED <<root, owed, counters>>
  BY DEF ClearLoad, At
<1>2. pc'[w] = "clear" /\ ~cold'[w] /\ OthersStay(w)
  BY <1>0, <1>1, GotoMoves, IdleIsCool DEF ClearLoad
<1>3. started' \in 0..Operations /\ started \in Nat
  BY OperationsAssumption, CounterAssumption DEF StatisticsInv
<1>5. Balanced(w, << >>, 0)
  BY <1>1, <1>2, <1>3, DueOfOne DEF Balanced, CounterNames, In, Computing, Requesting
<1> QED BY <1>1, <1>2, <1>3, <1>5, SilentStep

(* Clear and SetPolicy.                                                    *)
LEMMA FlushIsBooked ==
    ASSUME StatisticsInv, CacheInv', NEW w \in Workers, NEW p \in Policies, Replacement(p), Flushed,
           owed[w] = << >>, Owe(w, <<"clears">>), Goto(w, "cleared"), UNCHANGED <<cold, counters>>,
           \/ pc[w] = "clear" /\ started' = started
           \/ pc[w] = "idle" /\ started < Operations /\ started' = started + 1
    PROVE  StatisticsInv'
<1>0. TypeOK
  BY DEF StatisticsInv, CacheInv
<1>2. pc'[w] = "cleared" /\ ~cold'[w] /\ OthersStay(w)
  BY <1>0, GotoMoves, IdleIsCool
<1>3. started' \in 0..Operations /\ started \in Nat
  BY OperationsAssumption, CounterAssumption DEF StatisticsInv
<1>4. owed'[w] \in DebtLists /\ \A u \in Workers \ {w} : owed'[u] = owed[u]
  BY <1>0 DEF Owe, TypeOK, DebtLists, CounterNames
<1>5. Balanced(w, <<"clears">>, 0)
  BY <1>2, <1>3, DueOfOne DEF Balanced, CounterNames, In, Computing, Requesting
<1>6. Books(<<"clears">>)
  BY <1>0, BooksOwed
<1>7. Resides(0)
  BY FlushedResidents DEF StatisticsInv
<1> QED BY <1>2, <1>3, <1>4, <1>5, <1>6, <1>7, StatisticsKept

(* The ways out of a computation.                                          *)
LEMMA OutcomeIsBooked ==
    ASSUME StatisticsInv, CacheInv', NEW w \in Workers, Fault(w) \/ Uncacheable(w),
           Flushed, started' = started
    PROVE  StatisticsInv'
<1>0. TypeOK
  BY DEF StatisticsInv, CacheInv
<1>1. pc[w] = "compute" /\ owed[w] = << >> /\ UNCHANGED <<root, counters>>
  BY DEF Fault, Uncacheable, At
<1>2. pc'[w] = "return" /\ ~cold'[w] /\ OthersStay(w)
  BY <1>0, AnswerLeaves DEF Fault, Uncacheable
<1>3. started' \in 0..Operations /\ started \in Nat
  BY OperationsAssumption, CounterAssumption DEF StatisticsInv
<1>4. ASSUME NEW c \in {"faults", "uncacheable_results"}, Owe(w, <<c>>) PROVE StatisticsInv'
  <2>1. c \in CounterNames /\ <<c>> \in DebtLists
    BY DEF DebtLists, CounterNames
  <2>2. Balanced(w, <<c>>, 0)
    BY <1>1, <1>2, <1>3, <2>1, DueOfOne DEF Balanced, CounterNames, In, Computing, Requesting
  <2> QED BY <1>1, <1>2, <1>3, <1>4, <2>1, <2>2, OwingStep
<1> QED BY <1>4 DEF Fault, Uncacheable

(* The silent steps.                                                       *)
LEMMA SilentIsBooked ==
    ASSUME StatisticsInv, CacheInv', NEW w \in Workers,
           \/ Bypass(w) \/ Computed(w) \/ Unwind(w) \/ PublishStale(w) \/ Stage(w) \/ Retry(w)
           \/ ClearRetry(w) \/ Return(w),
           Flushed, started' = started
    PROVE  StatisticsInv'
<1>0. TypeOK
  BY DEF StatisticsInv, CacheInv
<1>1. UNCHANGED <<root, owed, counters>>
  BY DEF Bypass, Computed, Unwind, PublishStale, Stage, Retry, ClearRetry, Return
<1>2. started' \in 0..Operations /\ started \in Nat
  BY OperationsAssumption, CounterAssumption DEF StatisticsInv
<1>3. /\ OthersStay(w) /\ (cold'[w] => pc'[w] \in {"publish", "swap"})
      /\ (pc'[w] = "clear") = (pc[w] = "clear")
      /\ w \in Computing' => w \in Computing
      /\ w \in Requesting' => w \in Requesting
  <2>1. CASE Bypass(w) \/ PublishStale(w)
    <3>1. pc'[w] = "return" /\ ~cold'[w] /\ OthersStay(w)
      BY <1>0, <2>1, AnswerLeaves DEF Bypass, PublishStale
    <3>2. pc[w] \in {"compute", "publish"}
      BY <2>1 DEF Bypass, PublishStale, At
    <3> QED BY <3>1, <3>2 DEF Computing, Requesting
  <2>2. CASE Computed(w)
    <3>1. pc[w] = "compute" /\ pc'[w] = "publish" /\ OthersStay(w)
      BY <1>0, <2>2 DEF Computed, At, Goto, TypeOK, OthersStay
    <3> QED BY <3>1 DEF Computing, Requesting
  <2>3. CASE Unwind(w)
    <3>1. pc[w] = "compute" /\ pc'[w] = "idle" /\ ~cold'[w] /\ OthersStay(w)
      BY <1>0, <2>3 DEF Unwind, At, Goto, Release, TypeOK, OthersStay
    <3> QED BY <3>1 DEF Computing, Requesting
  <2>4. CASE Stage(w) \/ Retry(w)
    <3>1. /\ pc[w] \in {"publish", "swap"} /\ pc'[w] \in {"publish", "swap"}
          /\ cold'[w] = cold[w] /\ OthersStay(w)
      BY <1>0, <2>4, GotoMoves DEF Stage, Retry, At
    <3> QED BY <3>1 DEF Computing, Requesting
  <2>5. CASE ClearRetry(w)
    <3>1. UNCHANGED <<pc, cold>>
      BY <2>5 DEF ClearRetry
    <3> QED BY <3>1 DEF Computing, Requesting, OthersStay, StatisticsInv
  <2>6. CASE Return(w)
    <3>1. pc[w] \in {"return", "cleared"} /\ pc'[w] = "idle" /\ cold'[w] = cold[w] /\ OthersStay(w)
      BY <1>0, <2>6, GotoMoves DEF Return, At
    <3>2. ~cold[w]
      BY <3>1, IdleIsCool
    <3> QED BY <3>1, <3>2 DEF Computing, Requesting
  <2> QED BY <2>1, <2>2, <2>3, <2>4, <2>5, <2>6
<1>4. Balanced(w, << >>, 0)
  BY <1>2, <1>3, DueOfOne DEF Balanced, CounterNames, In
<1> QED BY <1>1, <1>2, <1>3, <1>4, SilentStep

(* An increment.                                                           *)
LEMMA CountIsBooked ==
    ASSUME StatisticsInv, CacheInv', NEW w \in Workers, Count(w), Flushed, started' = started
    PROVE  StatisticsInv'
<1>0. TypeOK /\ owed[w] \in DebtLists
  BY DEF StatisticsInv, CacheInv
<1>1. owed[w] # << >> /\ UNCHANGED <<root, pc, cold>> /\ Owe(w, Tail(owed[w]))
  BY DEF Count
<1>2. Books(<< >>) /\ owed'[w] \in DebtLists
  BY <1>0, <1>1, NoSaturation, BooksCount
<1>3. Resides(0)
  BY <1>1, SameResidents DEF StatisticsInv
<1>4. started' \in 0..Operations /\ started \in Nat
  BY OperationsAssumption, CounterAssumption DEF StatisticsInv
<1>5. Balanced(w, << >>, 0)
  BY <1>1, <1>4, DueOfOne DEF Balanced, CounterNames, In, Computing, Requesting
<1>6. OthersStay(w) /\ (cold'[w] => pc'[w] \in {"publish", "swap"})
  BY <1>1 DEF OthersStay, StatisticsInv
<1>7. \A u \in Workers \ {w} : owed'[u] = owed[u]
  BY <1>0, <1>1 DEF Owe, TypeOK
<1> QED BY <1>2, <1>3, <1>4, <1>5, <1>6, <1>7, StatisticsKept

(* The two ends of a publication.                                          *)
LEMMA NothingIsBooked ==
    ASSUME StatisticsInv, CacheInv', NEW w \in Workers, PublishNothing(w), Flushed, started' = started
    PROVE  StatisticsInv'
<1>0. TypeOK
  BY DEF StatisticsInv, CacheInv
<1>1. /\ pc[w] = "publish" /\ owed[w] = << >> /\ UNCHANGED <<root, counters>>
      /\ Owe(w, IF cold[w] THEN <<"raced_publications">> ELSE << >>)
  BY DEF PublishNothing, At
<1>2. pc'[w] = "return" /\ ~cold'[w] /\ OthersStay(w)
  BY <1>0, AnswerLeaves DEF PublishNothing
<1>3. started' \in 0..Operations /\ started \in Nat
  BY OperationsAssumption, CounterAssumption DEF StatisticsInv
<1>4. CASE cold[w]
  <2>1. <<"raced_publications">> \in DebtLists
    BY DEF DebtLists, CounterNames
  <2>2. Balanced(w, <<"raced_publications">>, 0)
    BY <1>1, <1>2, <1>3, <1>4, DueOfOne DEF Balanced, CounterNames, In, Computing, Requesting
  <2> QED BY <1>1, <1>2, <1>3, <1>4, <2>1, <2>2, OwingStep
<1>5. CASE ~cold[w]
  <2>1. << >> \in DebtLists
    BY DEF DebtLists
  <2>2. Balanced(w, << >>, 0)
    BY <1>1, <1>2, <1>3, <1>5, DueOfOne DEF Balanced, CounterNames, In, Computing, Requesting
  <2> QED BY <1>1, <1>2, <1>3, <1>5, <2>1, <2>2, OwingStep
<1> QED BY <1>4, <1>5

(* Concatenation of two lists of one.                                      *)
LEMMA PairOfOnes ==
    ASSUME NEW x, NEW y
    PROVE  <<x>> \o <<y>> = <<x, y>>
<1> DEFINE S == {x, y}
           s == <<x>>
           t == <<y>>
           z == <<x, y>>
<1>1. /\ s \in Seq(S) /\ t \in Seq(S) /\ z \in Seq(S)
      /\ Len(s) = 1 /\ Len(t) = 1 /\ Len(z) = 2
      /\ s[1] = x /\ t[1] = y /\ z[1] = x /\ z[2] = y
  OBVIOUS
<1> HIDE DEF S, s, t, z
<1>2. /\ s \o t \in Seq(S) /\ Len(s \o t) = Len(s) + Len(t)
      /\ \A i \in 1 .. Len(s) + Len(t) :
            (s \o t)[i] = IF i <= Len(s) THEN s[i] ELSE t[i - Len(s)]
  BY <1>1, ConcatProperties
<1>3. Len(s \o t) = Len(z)
  BY <1>1, <1>2
<1>4. ASSUME NEW i \in 1 .. Len(s \o t) PROVE (s \o t)[i] = z[i]
  <2>1. i = 1 \/ i = 2
    BY <1>1, <1>2
  <2>2. (s \o t)[1] = s[1] /\ (s \o t)[2] = t[1]
    BY <1>1, <1>2
  <2> QED BY <1>1, <2>1, <2>2
<1>5. s \o t = z
  BY <1>1, <1>2, <1>3, <1>4, SeqEqual
<1> QED BY <1>5 DEF s, t, z

(* What a publication owes.                                                *)
LEMMA PublicationOwes ==
    ASSUME NEW w \in Workers
    PROVE  LET inserted == ~Holds(current[w], id[w])
               evicts == Evicts(current[w], id[w])
           IN  PublicationCounts(w) =
                  IF inserted THEN IF evicts THEN <<"insertions", "evictions">> ELSE <<"insertions">>
                              ELSE IF cold[w] THEN <<"raced_publications">> ELSE << >>
<1> DEFINE inserted == ~Holds(current[w], id[w])
           evicts == Evicts(current[w], id[w])
           a == IF inserted THEN <<"insertions">> ELSE << >>
           b == IF evicts THEN <<"evictions">> ELSE << >>
           c == IF cold[w] /\ ~inserted THEN <<"raced_publications">> ELSE << >>
<1>1. PublicationCounts(w) = (a \o b) \o c
  BY DEF PublicationCounts
<1>2. evicts => inserted
  BY DEF Evicts
<1>3. << >> \o << >> = << >>
  <2>1. << >> \in Seq({})
    OBVIOUS
  <2> QED BY <2>1, ConcatEmptySeq
<1>4. \A x : << >> \o <<x>> = <<x>> /\ <<x>> \o << >> = <<x>>
  <2>1. ASSUME NEW x PROVE << >> \o <<x>> = <<x>> /\ <<x>> \o << >> = <<x>>
    <3>1. <<x>> \in Seq({x})
      OBVIOUS
    <3> QED BY <3>1, ConcatEmptySeq
  <2> QED BY <2>1
<1>5. \A x, y : <<x, y>> \o << >> = <<x, y>>
  <2>1. ASSUME NEW x, NEW y PROVE <<x, y>> \o << >> = <<x, y>>
    <3>1. <<x, y>> \in Seq({x, y})
      OBVIOUS
    <3> QED BY <3>1, ConcatEmptySeq
  <2> QED BY <2>1
<1> HIDE DEF inserted, evicts
<1>6. CASE inserted /\ evicts
  <2>1. a = <<"insertions">> /\ b = <<"evictions">> /\ c = << >>
    BY <1>6
  <2>2. a \o b = <<"insertions", "evictions">>
    BY ONLY <2>1, PairOfOnes
  <2>3. (a \o b) \o c = <<"insertions", "evictions">>
    <3> HIDE DEF a, b, c
    <3> QED BY ONLY <2>1, <2>2, <1>5
  <2> QED BY <1>1, <1>6, <2>3 DEF inserted, evicts
<1>7. CASE inserted /\ ~evicts
  <2>1. a = <<"insertions">> /\ b = << >> /\ c = << >>
    BY <1>7
  <2>2. (a \o b) \o c = <<"insertions">>
    <3> HIDE DEF a, b, c
    <3> QED BY ONLY <2>1, <1>4
  <2> QED BY <1>1, <1>7, <2>2 DEF inserted, evicts
<1>8. CASE ~inserted /\ cold[w]
  <2>1. a = << >> /\ b = << >> /\ c = <<"raced_publications">>
    BY <1>2, <1>8
  <2>2. (a \o b) \o c = <<"raced_publications">>
    <3> HIDE DEF a, b, c
    <3> QED BY ONLY <2>1, <1>3, <1>4
  <2> QED BY <1>1, <1>8, <2>2 DEF inserted, evicts
<1>9. CASE ~inserted /\ ~cold[w]
  <2>1. a = << >> /\ b = << >> /\ c = << >>
    BY <1>2, <1>9
  <2>2. (a \o b) \o c = << >>
    <3> HIDE DEF a, b, c
    <3> QED BY ONLY <2>1, <1>3
  <2> QED BY <1>1, <1>9, <2>2 DEF inserted, evicts
<1> QED BY <1>6, <1>7, <1>8, <1>9

LEMMA PublicationIsBooked ==
    ASSUME StatisticsInv, CacheInv', NEW w \in Workers, Publish(w), Flushed, started' = started
    PROVE  StatisticsInv'
<1> DEFINE inserted == ~Holds(current[w], id[w])
           evicts == Evicts(current[w], id[w])
           d == In(inserted /\ ~evicts)
           list == PublicationCounts(w)
<1>0. TypeOK
  BY DEF StatisticsInv, CacheInv
<1>1. pc[w] = "swap" /\ owed[w] = << >> /\ Owe(w, list) /\ counters' = counters
  BY DEF Publish, At
<1>2. pc'[w] = "return" /\ ~cold'[w] /\ OthersStay(w)
  BY <1>0, AnswerLeaves DEF Publish
<1>3. started' \in 0..Operations /\ started \in Nat
  BY OperationsAssumption, CounterAssumption DEF StatisticsInv
<1>4. evicts => inserted
  BY DEF Evicts
<1>5. list = IF inserted THEN IF evicts THEN <<"insertions", "evictions">> ELSE <<"insertions">>
             ELSE IF cold[w] THEN <<"raced_publications">> ELSE << >>
  BY PublicationOwes
<1>6. Resides(d) /\ d \in 0..1
  BY PublishedResidents DEF StatisticsInv, In
<1> HIDE DEF list
<1>7. Balanced(w, list, d)
  <2> HIDE DEF inserted, evicts
  <2>1. CASE inserted /\ evicts
    BY <1>1, <1>2, <1>3, <1>5, <2>1, DueOfOne DEF Balanced, CounterNames, In, Computing, Requesting
  <2>2. CASE inserted /\ ~evicts
    BY <1>1, <1>2, <1>3, <1>5, <2>2, DueOfOne DEF Balanced, CounterNames, In, Computing, Requesting
  <2>3. CASE ~inserted /\ cold[w]
    BY <1>1, <1>2, <1>3, <1>4, <1>5, <2>3, DueOfOne DEF Balanced, CounterNames, In, Computing, Requesting
  <2>4. CASE ~inserted /\ ~cold[w]
    BY <1>1, <1>2, <1>3, <1>4, <1>5, <2>4, DueOfOne DEF Balanced, CounterNames, In, Computing, Requesting
  <2> QED BY <2>1, <2>2, <2>3, <2>4
<1>8. Books(list)
  BY <1>0, <1>1, BooksOwed
<1>9. list \in DebtLists
  BY <1>5 DEF DebtLists, CounterNames
<1>10. owed'[w] \in DebtLists /\ \A u \in Workers \ {w} : owed'[u] = owed[u]
  BY <1>0, <1>1, <1>9 DEF Owe, TypeOK
<1> QED BY <1>2, <1>3, <1>6, <1>7, <1>8, <1>10, StatisticsKept

-----------------------------------------------------------------------------
LEMMA InitEstablishesStatisticsInv == StatisticsInit => StatisticsInv
<1> SUFFICES ASSUME StatisticsInit PROVE StatisticsInv
  OBVIOUS
<1>1. Init /\ started = 0 /\ flushed = 0
  BY DEF StatisticsInit
<1>2. CacheInv
  BY <1>1, InitEstablishesCacheInv
<1>3. \A w \in Workers : pc[w] = "idle" /\ owed[w] = << >> /\ ~cold[w]
  BY <1>1 DEF Init
<1>4. IsFiniteSet({}) /\ Cardinality({}) = 0
  BY FS_EmptySet
<1>5. Residents(root.storage) = {}
  BY <1>1 DEF Init, Snapshot, EmptyStorage, Residents
<1>6. ASSUME NEW c \in CounterNames PROVE Total(c) = 0
  <2>1. Debts(c) = {}
    BY <1>3 DEF Debts
  <2>2. counters[c] = 0
    BY <1>1 DEF Init
  <2> QED BY <1>4, <2>1, <2>2 DEF Total
<1>7. /\ Total("hits") = 0 /\ Total("misses") = 0 /\ Total("faults") = 0
      /\ Total("uncacheable_results") = 0 /\ Total("insertions") = 0
      /\ Total("evictions") = 0 /\ Total("raced_publications") = 0 /\ Total("clears") = 0
  BY <1>6 DEF CounterNames
<1>8. Clearing = {} /\ Computing = {} /\ Requesting = {}
  BY <1>3 DEF Clearing, Computing, Requesting
<1>9. BalanceInv
  BY <1>1, <1>4, <1>5, <1>7, <1>8
     DEF BalanceInv, ResidencyBalance, RequestBalance, Faulted
<1>10. started \in 0..Operations /\ flushed \in Nat
  BY <1>1, OperationsAssumption, CounterAssumption
<1> QED BY <1>2, <1>3, <1>4, <1>5, <1>9, <1>10 DEF StatisticsInv, DebtLists

LEMMA StartIsBooked ==
    ASSUME StatisticsInv, CacheInv', NEW w \in Workers, Start(w), Flushed,
           started < Operations, started' = started + 1
    PROVE  StatisticsInv'
<1>1. CASE \E i \in Ids : HitInPlace(w, i) \/ HitToTouch(w, i) \/ Miss(w, i)
  BY <1>1, HitIsBooked, MissIsBooked
<1>2. CASE ClearLoad(w)
  BY <1>2, ClearIsBegun
<1>3. ASSUME NEW p \in Policies, SetPolicy(w, p) PROVE StatisticsInv'
  <2>1. /\ pc[w] = "idle" /\ owed[w] = << >> /\ Replacement(p) /\ Owe(w, <<"clears">>)
        /\ Goto(w, "cleared") /\ UNCHANGED <<cold, counters>>
    BY <1>3 DEF SetPolicy, At
  <2> QED BY <2>1, FlushIsBooked
<1> QED BY <1>1, <1>2, <1>3 DEF Start

LEMMA ContinueIsBooked ==
    ASSUME StatisticsInv, CacheInv', NEW w \in Workers, Continue(w), Flushed, started' = started
    PROVE  StatisticsInv'
<1>1. CASE Fault(w) \/ Uncacheable(w)
  BY <1>1, OutcomeIsBooked
<1>2. CASE \/ Bypass(w) \/ Computed(w) \/ Unwind(w) \/ PublishStale(w) \/ Stage(w) \/ Retry(w)
           \/ ClearRetry(w) \/ Return(w)
  BY <1>2, SilentIsBooked
<1>3. CASE PublishNothing(w)
  BY <1>3, NothingIsBooked
<1>4. CASE Publish(w)
  BY <1>4, PublicationIsBooked
<1>5. CASE Count(w)
  BY <1>5, CountIsBooked
<1>6. CASE Clear(w)
  <2>1. /\ pc[w] = "clear" /\ owed[w] = << >> /\ Replacement(current[w].policy)
        /\ Owe(w, <<"clears">>) /\ Goto(w, "cleared") /\ UNCHANGED <<cold, counters>>
    BY <1>6 DEF Clear, At
  <2>2. current[w].policy \in Policies
    BY <2>1 DEF StatisticsInv, CacheInv, TypeOK, IsSnapshot
  <2> QED BY <2>1, <2>2, FlushIsBooked
<1> QED BY <1>1, <1>2, <1>3, <1>4, <1>5, <1>6 DEF Continue

LEMMA NextKeepsStatisticsInv == StatisticsInv /\ [StatisticsNext]_statisticsVars => StatisticsInv'
<1> SUFFICES ASSUME StatisticsInv, [StatisticsNext]_statisticsVars PROVE StatisticsInv'
  OBVIOUS
<1>1. [Next]_vars
  BY DEF StatisticsNext, statisticsVars, Next
<1>2. CacheInv'
  BY <1>1, NextKeepsCacheInv DEF StatisticsInv
<1>3. CASE StatisticsNext
  BY <1>2, <1>3, StartIsBooked, ContinueIsBooked DEF StatisticsNext
<1>4. CASE UNCHANGED statisticsVars
  <2>1. UNCHANGED <<root, pc, cold, owed, counters, started, flushed>>
    BY <1>4 DEF statisticsVars, vars
  <2>2. \A c : Total(c)' = Total(c)
    BY <2>1 DEF Total, Debts
  <2>3. Clearing' = Clearing /\ Computing' = Computing /\ Requesting' = Requesting
    BY <2>1 DEF Clearing, Computing, Requesting
  <2>4. BalanceInv'
    BY <2>1, <2>2, <2>3
       DEF StatisticsInv, BalanceInv, ResidencyBalance, RequestBalance, Faulted
  <2> QED BY <1>2, <2>1, <2>4 DEF StatisticsInv
<1> QED BY <1>3, <1>4

(* The balances without the requests on their way.                         *)
LEMMA BalanceAddsUp == StatisticsInv => StatisticsAddUp
<1> SUFFICES ASSUME StatisticsInv PROVE StatisticsAddUp
  OBVIOUS
<1>1. /\ Total("hits") \in Nat /\ Total("misses") \in Nat /\ Total("faults") \in Nat
      /\ Total("uncacheable_results") \in Nat /\ Total("insertions") \in Nat
      /\ Total("raced_publications") \in Nat
  BY TotalIsNat DEF CounterNames, StatisticsInv, CacheInv
<1>2. Cardinality(Computing) \in Nat /\ Cardinality(Requesting) \in Nat
  <2>1. Cardinality(Computing) \in Nat
    <3>1. Computing \in SUBSET Workers
      BY DEF Computing
    <3> QED BY ONLY <3>1, WorkersAssumption, FS_Subset, FS_CardinalityType
  <2>2. Cardinality(Requesting) \in Nat
    <3>1. Requesting \in SUBSET Workers
      BY DEF Requesting
    <3> QED BY ONLY <3>1, WorkersAssumption, FS_Subset, FS_CardinalityType
  <2> QED BY <2>1, <2>2
<1>3. MissOutcomes
  <2>1. /\ Total("faults") + Total("uncacheable_results") + Total("raced_publications")
              + Cardinality(Computing) <= Total("misses")
        /\ Total("faults") + Total("uncacheable_results") + Total("raced_publications")
              + Total("insertions") + Cardinality(Requesting) <= Total("misses") + Total("hits")
    BY DEF StatisticsInv, BalanceInv, Faulted
  <2>2. \A f, u, r, i, n, m, h \in Nat :
           /\ f + u + r + n <= m => f + u + r <= m
           /\ f + u + r + i + n <= m + h => f + u + r + i <= m + h
    OBVIOUS
  <2>3. /\ Total("faults") + Total("uncacheable_results") + Total("raced_publications")
              <= Total("misses")
        /\ Total("faults") + Total("uncacheable_results") + Total("raced_publications")
              + Total("insertions") <= Total("misses") + Total("hits")
    BY ONLY <1>1, <1>2, <2>1, <2>2
  <2> QED BY <2>3 DEF MissOutcomes
<1> QED BY <1>3 DEF StatisticsInv, BalanceInv, StatisticsAddUp

(* However operations race, the statistics account for every resident,     *)
(* every request and clear, and every outcome, the increments workers have *)
(* still to make counted in (SharedStateCache::statistics).                *)
THEOREM StatisticsBalance == StatisticsSpec => []StatisticsAddUp
<1>1. StatisticsInit => StatisticsInv
  BY InitEstablishesStatisticsInv
<1>2. StatisticsInv /\ [StatisticsNext]_statisticsVars => StatisticsInv'
  BY NextKeepsStatisticsInv
<1>3. StatisticsInv => StatisticsAddUp
  BY BalanceAddsUp
<1> QED BY <1>1, <1>2, <1>3, PTL DEF StatisticsSpec
=============================================================================
