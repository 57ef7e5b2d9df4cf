--------------------------- MODULE LazyRecencyMC ----------------------------
(***************************************************************************)
(* LazyWfst with the history of accesses, over expansions that complete    *)
(* and policy changes: does eviction follow the order of access?           *)
(***************************************************************************)
EXTENDS LazyWfstMC

VARIABLE accessed   \* history: the states ever accessed, by last access

RecencyInit == Init /\ accessed = << >>

Accessing(s) == accessed' = Append(Remove(accessed, s), s)

RecencyNext ==
    \/ \E s \in States : Hit(s) /\ Accessing(s)
    \/ Complete /\ Accessing(state)
    \/ /\ \/ \E s \in States : Check(s, "Normal", FALSE)
          \/ Begin \/ Compute("nonempty", FALSE) \/ Accept
          \/ \E p \in Policies : SetCachePolicy(p)
       /\ UNCHANGED accessed

RecencySpec == RecencyInit /\ [][RecencyNext]_<<vars, accessed>>

AccessedBefore(s, t) ==
    \E i, j \in DOMAIN accessed : i < j /\ accessed[i] = s /\ accessed[j] = t

(* Under Lru a state leaves the cache before every state accessed after it *)
(* (docs/architecture/lazy-wfst-lifecycle.md, "LRU").                      *)
LeastRecentFirst ==
    [][policy'.kind = "Lru" =>
          \A s \in Cached(cache) \ Cached(cache'), t \in Cached(cache) \cap Cached(cache') :
              AccessedBefore(s, t)]_<<vars, accessed>>
=============================================================================
